---- MODULE Spec2Model ----
(***************************************************************************)
(* Model of the polybet valuation engine (src/polybet).                    *)
(*                                                                         *)
(* The engine's components are pure functions.  A behaviour of Spec is one *)
(* call of one of them: Init draws the function and its arguments from     *)
(* bounded sets, and the function's action computes the value it returns.  *)
(* SpecAnalyze is the same for the investment judgement of analyze.        *)
(*                                                                         *)
(* Python floats are modelled as exact rationals <<n, d>> in lowest terms  *)
(* with d > 0; rounding error of the binary representation is abstracted   *)
(* away.  A division by zero raises ZeroDivisionError in Python; it is the *)
(* value <<0, 0>> here, and every operation on it yields it again.         *)
(***************************************************************************)
EXTENDS Integers, Sequences, FiniteSets, TLC

VARIABLES fn, args, ret, pc

vars == <<fn, args, ret, pc>>

----------------------------------------------------------------------------
(* Bounds of the input sets.                                               *)

MaxOutcomes == 3

MaxWeight == 2

MaxBlendOutcomes == 2

MaxPriceQuarters == 2

MaxProbNum == 21

MaxMarketOutcomes == 3

MaxCandidates == 3

MaxPhrases == 2

MaxItems == 2

MaxListLen == 2

MaxSegments == 3

MaxSearchItems == 2

MaxRefs == 2

MaxCalls == 3

MaxEvents == 4

----------------------------------------------------------------------------
(* Float arithmetic, as exact rationals.                                   *)

Abs(n) == IF n < 0 THEN -n ELSE n

RECURSIVE GCD(_, _)
GCD(a, b) == IF b = 0 THEN a ELSE GCD(b, a % b)

ZeroDivisionError == <<0, 0>>

Rat(n, d) ==
    IF d = 0 THEN ZeroDivisionError
    ELSE LET g == GCD(Abs(n), Abs(d))
             s == IF d < 0 THEN -1 ELSE 1
         IN <<(s * n) \div g, (s * d) \div g>>

Zero == <<0, 1>>

One == <<1, 1>>

Raised(x) == x[2] = 0

RAdd(x, y) == Rat(x[1] * y[2] + y[1] * x[2], x[2] * y[2])

RSub(x, y) == Rat(x[1] * y[2] - y[1] * x[2], x[2] * y[2])

RMul(x, y) == Rat(x[1] * y[1], x[2] * y[2])

RDiv(x, y) == Rat(x[1] * y[2], x[2] * y[1])

RLt(x, y) == x[1] * y[2] < y[1] * x[2]

RLe(x, y) == x[1] * y[2] <= y[1] * x[2]

RMax(x, y) == IF Raised(x) \/ Raised(y) THEN ZeroDivisionError
              ELSE IF RLt(x, y) THEN y ELSE x

RECURSIVE RSum(_, _)
RSum(f, S) ==
    IF S = {} THEN Zero
    ELSE LET k == CHOOSE k \in S : TRUE
         IN RAdd(f[k], RSum(f, S \ {k}))

(* The values of a dict, summed. *)
SumValues(d) == RSum(d, DOMAIN d)

----------------------------------------------------------------------------
(* Input sets.                                                             *)

NameOf == <<"A", "B", "C", "D", "E">>

OutcomeNames(n) == {NameOf[i] : i \in 1..n}

(* Every dict with keys among K and values in V. *)
Dicts(K, V) == UNION {[S -> V] : S \in SUBSET K}

Weights == {Rat(n, 2) : n \in -1..MaxWeight}

OddsValues == {Rat(n, 10) : n \in {5, 10, 19, 30}}

(* An optional dict: None, or a dict (possibly empty). *)
None == [some |-> FALSE, d |-> <<>>]

Some(d) == [some |-> TRUE, d |-> d]

Optional(D) == {None} \cup {Some(d) : d \in D}

Prices == {Rat(n, 4) : n \in 0..MaxPriceQuarters}

KellyProbs == {Rat(n, 20) : n \in -1..MaxProbNum}

KellyFractions == {Rat(-1, 4), Zero, Rat(1, 4), One}

----------------------------------------------------------------------------
(* math_utils.py                                                           *)

(* normalize_probs with the guard "total < 0": a zero total is divided by. *)
normalize_probs_NoZeroGuard(values) ==
    LET nonneg == {k \in DOMAIN values : RLe(Zero, values[k])}
        total == RSum(values, nonneg)
    IN IF RLt(total, Zero)
       THEN [k \in DOMAIN values |-> Zero]
       ELSE [k \in DOMAIN values |-> RDiv(RMax(Zero, values[k]), total)]

(* normalize_probs that clamps but forgets to divide by the total. *)
normalize_probs_NoDivide(values) ==
    LET nonneg == {k \in DOMAIN values : RLe(Zero, values[k])}
        total == RSum(values, nonneg)
    IN IF RLe(total, Zero)
       THEN [k \in DOMAIN values |-> Zero]
       ELSE [k \in DOMAIN values |-> RMax(Zero, values[k])]

normalize_probs(values) ==
    LET nonneg == {k \in DOMAIN values : RLe(Zero, values[k])}
        total == RSum(values, nonneg)
    IN IF RLe(total, Zero)
       THEN [k \in DOMAIN values |-> Zero]
       ELSE [k \in DOMAIN values |-> RDiv(RMax(Zero, values[k]), total)]

(* devig_decimal_odds with the filter "v >= 1.0": odds of 1.0 are kept. *)
devig_decimal_odds_KeepsEven(odds) ==
    LET valid == {k \in DOMAIN odds : RLe(One, odds[k])}
        inv == [k \in valid |-> RDiv(One, odds[k])]
    IN normalize_probs(inv)

devig_decimal_odds(odds) ==
    LET valid == {k \in DOMAIN odds : RLt(One, odds[k])}
        inv == [k \in valid |-> RDiv(One, odds[k])]
    IN normalize_probs(inv)

(* "if mids:" - a dict is true iff it is neither None nor empty. *)
Truthy(m) == m.some /\ DOMAIN m.d # {}

(* dict.get(o, default) *)
Get(d, o, default) == IF o \in DOMAIN d THEN d[o] ELSE default

LabelMarketOnly == "NO EDGE (no external reference)"

LabelRefMidMarket == "Blended 50% ref / 30% mid / 20% market"

LabelRefMarket == "Blended 70% ref / 30% market"

LabelMidMarket == "Blended 60% mid / 40% market"

(* all_outcomes that forgets the keys of the other sources. *)
AllOutcomes_PricesOnly(prices, mids, ref) == DOMAIN prices

(* all_outcomes: the keys of every present source. *)
AllOutcomes(prices, mids, ref) ==
    DOMAIN prices
        \cup (IF Truthy(mids) THEN DOMAIN mids.d ELSE {})
        \cup (IF Truthy(ref) THEN DOMAIN ref.d ELSE {})

(* The locals p, m and r of the blending loops for outcome o. *)
BlendTerms(prices, mids, ref, o) ==
    LET p == Get(prices, o, Zero)
    IN [p |-> p, m |-> Get(mids.d, o, p), r |-> Get(ref.d, o, p)]

(* blended_fair_probs with the market/reference weights swapped to 70/30. *)
blended_fair_probs_SwappedRef(prices, mids, ref) ==
    IF ~Truthy(mids) /\ ~Truthy(ref)
    THEN <<normalize_probs(prices), LabelMarketOnly>>
    ELSE LET all_outcomes == AllOutcomes(prices, mids, ref)
             t(o) == BlendTerms(prices, mids, ref, o)
         IN IF Truthy(ref) /\ Truthy(mids)
            THEN <<normalize_probs([o \in all_outcomes |->
                        RAdd(RAdd(RMul(Rat(5, 10), t(o).r), RMul(Rat(3, 10), t(o).m)),
                             RMul(Rat(2, 10), t(o).p))]),
                   LabelRefMidMarket>>
            ELSE IF Truthy(ref)
            THEN <<normalize_probs([o \in all_outcomes |->
                        RAdd(RMul(Rat(3, 10), t(o).r), RMul(Rat(7, 10), t(o).p))]),
                   LabelRefMarket>>
            ELSE <<normalize_probs([o \in all_outcomes |->
                        RAdd(RMul(Rat(6, 10), t(o).m), RMul(Rat(4, 10), t(o).p))]),
                   LabelMidMarket>>

(* blended_fair_probs whose market-only branch returns the prices as given. *)
blended_fair_probs_RawMarket(prices, mids, ref) ==
    IF ~Truthy(mids) /\ ~Truthy(ref)
    THEN <<prices, LabelMarketOnly>>
    ELSE LET all_outcomes == AllOutcomes(prices, mids, ref)
             t(o) == BlendTerms(prices, mids, ref, o)
         IN IF Truthy(ref) /\ Truthy(mids)
            THEN <<normalize_probs([o \in all_outcomes |->
                        RAdd(RAdd(RMul(Rat(5, 10), t(o).r), RMul(Rat(3, 10), t(o).m)),
                             RMul(Rat(2, 10), t(o).p))]),
                   LabelRefMidMarket>>
            ELSE IF Truthy(ref)
            THEN <<normalize_probs([o \in all_outcomes |->
                        RAdd(RMul(Rat(7, 10), t(o).r), RMul(Rat(3, 10), t(o).p))]),
                   LabelRefMarket>>
            ELSE <<normalize_probs([o \in all_outcomes |->
                        RAdd(RMul(Rat(6, 10), t(o).m), RMul(Rat(4, 10), t(o).p))]),
                   LabelMidMarket>>

blended_fair_probs(prices, mids, ref) ==
    IF ~Truthy(mids) /\ ~Truthy(ref)
    THEN <<normalize_probs(prices), LabelMarketOnly>>
    ELSE LET all_outcomes == AllOutcomes(prices, mids, ref)
             t(o) == BlendTerms(prices, mids, ref, o)
         IN IF Truthy(ref) /\ Truthy(mids)
            THEN <<normalize_probs([o \in all_outcomes |->
                        RAdd(RAdd(RMul(Rat(5, 10), t(o).r), RMul(Rat(3, 10), t(o).m)),
                             RMul(Rat(2, 10), t(o).p))]),
                   LabelRefMidMarket>>
            ELSE IF Truthy(ref)
            THEN <<normalize_probs([o \in all_outcomes |->
                        RAdd(RMul(Rat(7, 10), t(o).r), RMul(Rat(3, 10), t(o).p))]),
                   LabelRefMarket>>
            ELSE <<normalize_probs([o \in all_outcomes |->
                        RAdd(RMul(Rat(6, 10), t(o).m), RMul(Rat(4, 10), t(o).p))]),
                   LabelMidMarket>>

(* fractional_kelly_fraction with the closed price guard "0 <= price <= 1". *)
fractional_kelly_fraction_ClosedGuard(prob, price, fraction) ==
    IF ~(RLe(Zero, price) /\ RLe(price, One)) \/ ~(RLe(Zero, prob) /\ RLe(prob, One))
    THEN Zero
    ELSE LET b == RDiv(RSub(One, price), price)
             q == RSub(One, prob)
             kelly == RDiv(RSub(RMul(b, prob), q), b)
         IN RMax(Zero, RMul(kelly, RMax(Zero, fraction)))

(* fractional_kelly_fraction that multiplies by the unclamped fraction. *)
fractional_kelly_fraction_RawFraction(prob, price, fraction) ==
    IF ~(RLt(Zero, price) /\ RLt(price, One)) \/ ~(RLe(Zero, prob) /\ RLe(prob, One))
    THEN Zero
    ELSE LET b == RDiv(RSub(One, price), price)
             q == RSub(One, prob)
             kelly == RDiv(RSub(RMul(b, prob), q), b)
         IN RMax(Zero, RMul(kelly, fraction))

fractional_kelly_fraction(prob, price, fraction) ==
    IF ~(RLt(Zero, price) /\ RLt(price, One)) \/ ~(RLe(Zero, prob) /\ RLe(prob, One))
    THEN Zero
    ELSE LET b == RDiv(RSub(One, price), price)
             q == RSub(One, prob)
             kelly == RDiv(RSub(RMul(b, prob), q), b)
         IN RMax(Zero, RMul(kelly, RMax(Zero, fraction)))

----------------------------------------------------------------------------
(* One call of one function.                                               *)

NormalizeInputs == {[values |-> v] : v \in Dicts(OutcomeNames(MaxOutcomes), Weights)}

DevigInputs == {[odds |-> v] : v \in Dicts(OutcomeNames(MaxOutcomes), OddsValues)}

BlendDicts == Dicts(OutcomeNames(MaxBlendOutcomes), Prices)

BlendInputs ==
    {[prices |-> p, mids |-> m, ref |-> r] :
        p \in BlendDicts, m \in Optional(BlendDicts), r \in Optional(BlendDicts)}

KellyInputs ==
    {[prob |-> p, price |-> c, fraction |-> f] :
        p \in KellyProbs, c \in KellyProbs, f \in KellyFractions}

Init ==
    /\ pc = "call"
    /\ ret = <<>>
    /\ \/ fn = "normalize_probs" /\ args \in NormalizeInputs
       \/ fn = "devig_decimal_odds" /\ args \in DevigInputs
       \/ fn = "blended_fair_probs" /\ args \in BlendInputs
       \/ fn = "fractional_kelly_fraction" /\ args \in KellyInputs

CallNormalizeProbs ==
    /\ pc = "call"
    /\ fn = "normalize_probs"
    /\ ret' = normalize_probs(args.values)
    /\ pc' = "done"
    /\ UNCHANGED <<fn, args>>

CallDevigDecimalOdds ==
    /\ pc = "call"
    /\ fn = "devig_decimal_odds"
    /\ ret' = devig_decimal_odds(args.odds)
    /\ pc' = "done"
    /\ UNCHANGED <<fn, args>>

CallBlendedFairProbs ==
    /\ pc = "call"
    /\ fn = "blended_fair_probs"
    /\ ret' = blended_fair_probs(args.prices, args.mids, args.ref)
    /\ pc' = "done"
    /\ UNCHANGED <<fn, args>>

CallFractionalKellyFraction ==
    /\ pc = "call"
    /\ fn = "fractional_kelly_fraction"
    /\ ret' = fractional_kelly_fraction(args.prob, args.price, args.fraction)
    /\ pc' = "done"
    /\ UNCHANGED <<fn, args>>

Next ==
    \/ CallNormalizeProbs
    \/ CallDevigDecimalOdds
    \/ CallBlendedFairProbs
    \/ CallFractionalKellyFraction

Spec == Init /\ [][Next]_vars

----------------------------------------------------------------------------
(* config.py: Settings, with the defaults of the environment.              *)

ev_min == Rat(2, 100)

liq_min == Rat(2000, 1)

spread_max == Rat(5, 100)

max_bet_pct == Rat(1, 100)

max_daily_exposure == Rat(5, 100)

----------------------------------------------------------------------------
(* costs.py and math_utils.slippage_heuristic.  An optional float is None  *)
(* or Some(x).                                                             *)

(* slippage_heuristic with inclusive tier limits ("<=" for "<"). *)
slippage_heuristic_Inclusive(liquidity) ==
    IF ~liquidity.some THEN Rat(2, 100)
    ELSE IF RLe(liquidity.d, Rat(2000, 1)) THEN Rat(3, 100)
    ELSE IF RLe(liquidity.d, Rat(10000, 1)) THEN Rat(15, 1000)
    ELSE Rat(75, 10000)

(* slippage_heuristic with the two lower tiers' values exchanged. *)
slippage_heuristic_SwappedTiers(liquidity) ==
    IF ~liquidity.some THEN Rat(2, 100)
    ELSE IF RLt(liquidity.d, Rat(2000, 1)) THEN Rat(15, 1000)
    ELSE IF RLt(liquidity.d, Rat(10000, 1)) THEN Rat(3, 100)
    ELSE Rat(75, 10000)

slippage_heuristic(liquidity) ==
    IF ~liquidity.some THEN Rat(2, 100)
    ELSE IF RLt(liquidity.d, Rat(2000, 1)) THEN Rat(3, 100)
    ELSE IF RLt(liquidity.d, Rat(10000, 1)) THEN Rat(15, 1000)
    ELSE Rat(75, 10000)

(* "fee_rate_bps or 0.0": None and 0.0 both give 0.0. *)
OrZero(x) == IF x.some /\ x.d # Zero THEN x.d ELSE Zero

estimate_cost_for_outcome(outcome, liquidity) ==
    [spread |-> IF outcome.spread.some THEN RDiv(outcome.spread.d, Rat(2, 1))
                ELSE Rat(1, 100),
     fee |-> RDiv(OrZero(outcome.fee_rate_bps), Rat(10000, 1)),
     slippage |-> slippage_heuristic(liquidity)]

(* CostBreakdown.total *)
CostTotal(cost) == RAdd(RAdd(cost.spread, cost.fee), cost.slippage)

CostSpreads == {None, Some(Zero), Some(Rat(2, 100)), Some(Rat(10, 100))}

CostFeeRates == {None, Some(Zero), Some(Rat(30, 1))}

CostLiquidityValues == {Rat(l, 1) : l \in {0, 1999, 2000, 9999, 10000, 15000}}

CostInputs ==
    {[outcome |-> [price |-> Rat(54, 100), spread |-> s, fee_rate_bps |-> f],
      liquidity |-> l] :
        s \in CostSpreads, f \in CostFeeRates,
        l \in {None} \cup {Some(v) : v \in CostLiquidityValues}}

InitCost ==
    /\ pc = "call"
    /\ ret = <<>>
    /\ fn = "estimate_cost_for_outcome"
    /\ args \in CostInputs

CallEstimateCostForOutcome ==
    /\ pc = "call"
    /\ fn = "estimate_cost_for_outcome"
    /\ ret' = estimate_cost_for_outcome(args.outcome, args.liquidity)
    /\ pc' = "done"
    /\ UNCHANGED <<fn, args>>

NextCost == CallEstimateCostForOutcome

SpecCost == InitCost /\ [][NextCost]_vars

----------------------------------------------------------------------------
(* analysis.py: the investment judgement of analyze (section 7 of the      *)
(* report) for one snapshot classified as moneyline, without reference     *)
(* odds.  An outcome is named by its position, so item.name is a key into  *)
(* snap.outcomes.                                                          *)

(* sum(o.price for o in snap.outcomes if o.price > 0) *)
RECURSIVE TotalProb(_)
TotalProb(outcomes) ==
    IF outcomes = <<>> THEN Zero
    ELSE LET o == outcomes[Len(outcomes)]
             rest == TotalProb(SubSeq(outcomes, 1, Len(outcomes) - 1))
         IN IF RLt(Zero, o.price) THEN RAdd(rest, o.price) ELSE rest

(* The body of the loop over a market's outcomes, for one outcome. *)
EvaluateOutcome(name, price, total_prob) ==
    LET fair == IF RLt(Zero, total_prob) THEN RDiv(price, total_prob) ELSE price
        spread_cost == Rat(2, 1000)
        edge == RSub(RSub(fair, price), spread_cost)
        ev == IF RLt(Zero, price) THEN RMul(RDiv(edge, price), Rat(100, 1)) ELSE Zero
        overround_bonus == IF RLt(One, total_prob)
                           THEN RMul(RSub(total_prob, One), Rat(50, 1))
                           ELSE Zero
        kelly == IF RLt(price, fair) /\ RLt(Zero, price)
                 THEN fractional_kelly_fraction(fair, price, Rat(1, 4))
                 ELSE Zero
    IN [name |-> name, price |-> price, fair |-> fair, edge |-> edge,
        ev |-> RAdd(ev, overround_bonus), raw_ev |-> ev, kelly |-> kelly,
        cost |-> spread_cost, type |-> "moneyline", matched_ref |-> FALSE]

(* all_outcomes after the moneyline loop: outcomes with price <= 0 skipped. *)
RECURSIVE MoneylineItems(_, _, _)
MoneylineItems(outcomes, n, total_prob) ==
    IF n = 0 THEN <<>>
    ELSE LET before == MoneylineItems(outcomes, n - 1, total_prob)
         IN IF RLe(outcomes[n].price, Zero) THEN before
            ELSE Append(before, EvaluateOutcome(n, outcomes[n].price, total_prob))

(* all_outcomes.sort(key=ev, reverse=True): descending and stable. *)
RECURSIVE SortByEv(_)
SortByEv(items) ==
    IF items = <<>> THEN <<>>
    ELSE LET sorted == SortByEv(SubSeq(items, 1, Len(items) - 1))
             x == items[Len(items)]
             k == Cardinality({i \in 1..Len(sorted) : RLe(x.ev, sorted[i].ev)})
         IN SubSeq(sorted, 1, k) \o <<x>> \o SubSeq(sorted, k + 1, Len(sorted))

(* The verdict printed for an item, by its displayed EV in percent:        *)
(* strong recommend / recommend / small stake possible / not recommended   *)
(* / pass.                                                                 *)
Verdict(ev_pct) ==
    IF RLt(Rat(2, 1), ev_pct) THEN "strong_recommend"
    ELSE IF RLt(Rat(1, 2), ev_pct) THEN "recommend"
    ELSE IF RLt(Rat(-1, 2), ev_pct) THEN "small_ok"
    ELSE IF RLt(Rat(-2, 1), ev_pct) THEN "not_recommended"
    ELSE "pass"

Min(a, b) == IF a < b THEN a ELSE b

(* The kinds of line analyze appends to the report for one item. *)
ItemLines(item) ==
    {"verdict", "market_price", "fair_prob", "edge_ev"}
        \cup (IF RLt(Zero, item.kelly) THEN {"kelly"} ELSE {})
        \cup (IF item.matched_ref THEN {"ref_based"} ELSE {})

(* The items analyze prints, in order, each with its verdict and the kinds *)
(* of line printed for it; at most 8.                                      *)
analyze(snap) ==
    LET all_outcomes == SortByEv(MoneylineItems(snap.outcomes, Len(snap.outcomes),
                                                TotalProb(snap.outcomes)))
    IN [all_outcomes |-> all_outcomes,
        shown |-> [i \in 1..Min(8, Len(all_outcomes)) |->
                      [item |-> all_outcomes[i],
                       verdict |-> Verdict(all_outcomes[i].ev),
                       lines |-> ItemLines(all_outcomes[i])]]]

MarketPrices == {Rat(n, 10) : n \in {0, 4, 5, 6, 10}}

Liquidities ==
    {None} \cup {Some(Rat(l, 1)) : l \in {0, 1000, 2000, 5000, 10000, 15000}}

(* parse_market_payload builds every Outcome from name, price and token    *)
(* id only, and analyze never hydrates it: spread and fee rate are None.   *)
Outcomes == [price : MarketPrices, spread : {None}, fee_rate_bps : {None}]

Snapshots ==
    {[liquidity |-> l, outcomes |-> os] :
        l \in Liquidities,
        os \in UNION {[1..n -> Outcomes] : n \in 1..MaxMarketOutcomes}}

InitAnalyze ==
    /\ pc = "call"
    /\ ret = <<>>
    /\ fn = "analyze"
    /\ args \in {[snap |-> s] : s \in Snapshots}

CallAnalyze ==
    /\ pc = "call"
    /\ fn = "analyze"
    /\ ret' = analyze(args.snap)
    /\ pc' = "done"
    /\ UNCHANGED <<fn, args>>

NextAnalyze == CallAnalyze

SpecAnalyze == InitAnalyze /\ [][NextAnalyze]_vars

----------------------------------------------------------------------------
(* clients.py: choose_best_candidate.  A slug is the sequence of its code  *)
(* points; a start date is None or Some([aware, hours]), the hours counted *)
(* from "now" and aware telling whether the datetime carries a UTC offset. *)
(* The result is a Candidate, None, or the TypeError that subtracting an   *)
(* aware from a naive datetime raises.                                     *)

Candidate(title, slug, type, active, closed, liquidity, volume24hr, start_date, sports_related) ==
    [title |-> title, slug |-> slug, type |-> type, active |-> active,
     closed |-> closed, liquidity |-> liquidity, volume24hr |-> volume24hr,
     start_date |-> start_date, sports_related |-> sports_related]

Aware(hours) == Some([aware |-> TRUE, hours |-> hours])

Naive(hours) == Some([aware |-> FALSE, hours |-> hours])

(* Python's "<" on str: lexicographic by code point. *)
RECURSIVE StrLt(_, _)
StrLt(s, t) ==
    IF t = <<>> THEN FALSE
    ELSE IF s = <<>> THEN TRUE
    ELSE IF s[1] # t[1] THEN s[1] < t[1]
    ELSE StrLt(Tail(s), Tail(t))

(* abs((c.start_date - now).total_seconds()) if c.start_date else inf;     *)
(* None stands for inf.                                                    *)
TimeDistance(c) ==
    IF c.start_date.some THEN Some(Abs(c.start_date.d.hours) * 3600) ELSE None

InfLt(x, y) == x.some /\ (~y.some \/ x.d < y.d)

InfEq(x, y) == x.some = y.some /\ (x.some => x.d = y.d)

(* The sort key with volume and time exchanged. *)
KeyLt_TimeBeforeVolume(a, b) ==
    IF a.liquidity # b.liquidity THEN RLt(b.liquidity, a.liquidity)
    ELSE IF ~InfEq(TimeDistance(a), TimeDistance(b)) THEN InfLt(TimeDistance(a), TimeDistance(b))
    ELSE IF a.volume24hr # b.volume24hr THEN RLt(b.volume24hr, a.volume24hr)
    ELSE StrLt(a.slug, b.slug)

(* key(a) < key(b) for the tuples (-liquidity, -volume24hr, distance, slug). *)
KeyLt(a, b) ==
    IF a.liquidity # b.liquidity THEN RLt(b.liquidity, a.liquidity)
    ELSE IF a.volume24hr # b.volume24hr THEN RLt(b.volume24hr, a.volume24hr)
    ELSE IF ~InfEq(TimeDistance(a), TimeDistance(b)) THEN InfLt(TimeDistance(a), TimeDistance(b))
    ELSE StrLt(a.slug, b.slug)

(* sorted(pool, key=...): ascending and stable. *)
RECURSIVE Sorted(_)
Sorted(pool) ==
    IF pool = <<>> THEN <<>>
    ELSE LET before == Sorted(SubSeq(pool, 1, Len(pool) - 1))
             x == pool[Len(pool)]
             k == Cardinality({i \in 1..Len(before) : ~KeyLt(x, before[i])})
         IN SubSeq(before, 1, k) \o <<x>> \o SubSeq(before, k + 1, Len(before))

Returns(kind, value) == [kind |-> kind, value |-> value]

(* choose_best_candidate without the preference for the sports pool. *)
choose_best_candidate_AnyPool(candidates) ==
    LET pool == SelectSeq(candidates,
                          LAMBDA c : c.active /\ ~c.closed /\ c.slug # <<>>)
        active_pool == pool
    IN IF active_pool = <<>> THEN Returns("None", <<>>)
       ELSE IF \E i \in DOMAIN active_pool :
                   /\ active_pool[i].start_date.some
                   /\ ~active_pool[i].start_date.d.aware
       THEN Returns("TypeError", <<>>)
       ELSE Returns("Candidate", Sorted(active_pool)[1])

choose_best_candidate(candidates) ==
    LET pool == SelectSeq(candidates,
                          LAMBDA c : c.active /\ ~c.closed /\ c.slug # <<>>)
        sports_pool == SelectSeq(pool, LAMBDA c : c.sports_related)
        active_pool == IF sports_pool # <<>> THEN sports_pool ELSE pool
    IN IF active_pool = <<>> THEN Returns("None", <<>>)
       ELSE IF \E i \in DOMAIN active_pool :
                   /\ active_pool[i].start_date.some
                   /\ ~active_pool[i].start_date.d.aware
       THEN Returns("TypeError", <<>>)
       ELSE Returns("Candidate", Sorted(active_pool)[1])

(* Candidates that differ in what the filter looks at. *)
FilterCandidates ==
    {Candidate("T", k.slug, "market", k.active, k.closed, Rat(l, 1), Rat(100, 1),
               None, sp) :
        k \in {[active |-> TRUE, closed |-> FALSE, slug |-> <<97>>],
                [active |-> FALSE, closed |-> FALSE, slug |-> <<97>>],
                [active |-> TRUE, closed |-> TRUE, slug |-> <<97>>],
                [active |-> TRUE, closed |-> FALSE, slug |-> <<>>]},
        l \in {1000, 2000},
        sp \in BOOLEAN}

(* Selectable candidates that differ in what the sort key looks at, the    *)
(* three candidates of test_selection.py, one with a naive start date, and *)
(* an event that shares slug, liquidity and volume with a market.          *)
OrderCandidates ==
    {Candidate("T", sl, "market", TRUE, FALSE, Rat(2000, 1), Rat(v, 1), st, TRUE) :
        sl \in {<<97>>, <<98>>},
        v \in {100, 300},
        st \in {None, Aware(5), Aware(-3)}}
    \cup {Candidate("A", <<97>>, "market", TRUE, FALSE, Rat(1000, 1), Rat(500, 1),
                     Aware(5), TRUE),
           Candidate("B", <<98>>, "market", TRUE, FALSE, Rat(2000, 1), Rat(100, 1),
                     Aware(10), TRUE),
           Candidate("C", <<99>>, "market", TRUE, FALSE, Rat(2000, 1), Rat(300, 1),
                     Aware(20), TRUE),
           Candidate("N", <<97>>, "market", TRUE, FALSE, Rat(2000, 1), Rat(300, 1),
                     Naive(5), TRUE),
           Candidate("E", <<97>>, "event", TRUE, FALSE, Rat(2000, 1), Rat(300, 1),
                     None, TRUE)}

Lists(U, n) == UNION {[1..k -> U] : k \in 0..n}

SelectInputs ==
    {[candidates |-> cs] :
        cs \in Lists(FilterCandidates, MaxCandidates)
                    \cup Lists(OrderCandidates, MaxCandidates)}

InitSelect ==
    /\ pc = "call"
    /\ ret = <<>>
    /\ fn = "choose_best_candidate"
    /\ args \in SelectInputs

CallChooseBestCandidate ==
    /\ pc = "call"
    /\ fn = "choose_best_candidate"
    /\ ret' = choose_best_candidate(args.candidates)
    /\ pc' = "done"
    /\ UNCHANGED <<fn, args>>

NextSelect == CallChooseBestCandidate

SpecSelect == InitSelect /\ [][NextSelect]_vars

----------------------------------------------------------------------------
(* analysis.py: _classify_market.  A str is the sequence of its            *)
(* characters.                                                             *)

UpperCase == <<"A", "B", "C", "D", "E", "F", "G", "H", "I", "J", "K", "L", "M",
              "N", "O", "P", "Q", "R", "S", "T", "U", "V", "W", "X", "Y", "Z">>

LowerCase == <<"a", "b", "c", "d", "e", "f", "g", "h", "i", "j", "k", "l", "m",
              "n", "o", "p", "q", "r", "s", "t", "u", "v", "w", "x", "y", "z">>

(* str.lower() on the ASCII letters; every other character is kept. *)
Lower(s) ==
    [i \in 1..Len(s) |->
        IF \E k \in 1..26 : UpperCase[k] = s[i]
        THEN LowerCase[CHOOSE k \in 1..26 : UpperCase[k] = s[i]]
        ELSE s[i]]

(* sub in s *)
In(sub, s) ==
    \E i \in 1..(Len(s) - Len(sub) + 1) : SubSeq(s, i, i + Len(sub) - 1) = sub

Winner == <<"w", "i", "n", "n", "e", "r">>

Game == <<"g", "a", "m", "e">>

Map == <<"m", "a", "p">>

Handicap == <<"h", "a", "n", "d", "i", "c", "a", "p">>

Total == <<"t", "o", "t", "a", "l">>

OU == <<"o", "/", "u">>

OverUnder == <<"o", "v", "e", "r", "/", "u", "n", "d", "e", "r">>

Will == <<"w", "i", "l", "l">>

Win == <<"w", "i", "n">>

MatchWinner == <<"m", "a", "t", "c", "h", " ", "w", "i", "n", "n", "e", "r">>

EndInADraw == <<"e", "n", "d", " ", "i", "n", " ", "a", " ", "d", "r", "a", "w">>

PropKeywords ==
    {<<"k", "i", "l", "l">>,
     <<"f", "i", "r", "s", "t">>,
     <<"t", "o", "w", "e", "r">>,
     <<"b", "a", "r", "o", "n">>,
     <<"d", "r", "a", "g", "o", "n">>}

(* _classify_market with the total rule ahead of the handicap rule. *)
_classify_market_TotalFirst(question, group_item_title) ==
    LET q == Lower(question)
        g == Lower(group_item_title)
    IN IF g = MatchWinner \/ (In(Winner, g) /\ ~In(Game, g)) THEN "moneyline"
       ELSE IF In(Total, q) \/ In(OU, q) \/ In(OverUnder, q) THEN "total"
       ELSE IF In(Handicap, q) \/ In(Handicap, g) THEN "handicap"
       ELSE IF (In(Will, q) /\ In(Win, q)) \/ In(Winner, g)
       THEN IF In(Game, q) \/ In(Map, q) \/ In(Game, g) THEN "game_winner"
            ELSE "moneyline"
       ELSE IF \E k \in PropKeywords : In(k, q) THEN "prop"
       ELSE IF In(Will, q) /\ (In(Win, q) \/ In(EndInADraw, q)) THEN "moneyline"
       ELSE "other"

_classify_market(question, group_item_title) ==
    LET q == Lower(question)
        g == Lower(group_item_title)
    IN IF g = MatchWinner \/ (In(Winner, g) /\ ~In(Game, g)) THEN "moneyline"
       ELSE IF In(Handicap, q) \/ In(Handicap, g) THEN "handicap"
       ELSE IF In(Total, q) \/ In(OU, q) \/ In(OverUnder, q) THEN "total"
       ELSE IF (In(Will, q) /\ In(Win, q)) \/ In(Winner, g)
       THEN IF In(Game, q) \/ In(Map, q) \/ In(Game, g) THEN "game_winner"
            ELSE "moneyline"
       ELSE IF \E k \in PropKeywords : In(k, q) THEN "prop"
       ELSE IF In(Will, q) /\ (In(Win, q) \/ In(EndInADraw, q)) THEN "moneyline"
       ELSE "other"

(* The phrases questions are put together from: every keyword of the      *)
(* rules, some capitalised, and one phrase without any.                    *)
Phrases ==
    {<<"W", "i", "l", "l">>,
     <<"w", "i", "n">>,
     <<"W", "i", "l", "l", " ", "X", " ", "w", "i", "n">>,
     <<"G", "a", "m", "e", " ", "2">>,
     <<"m", "a", "p", " ", "3">>,
     <<"H", "a", "n", "d", "i", "c", "a", "p">>,
     <<"T", "o", "t", "a", "l">>,
     <<"O", "/", "U">>,
     <<"o", "v", "e", "r", "/", "u", "n", "d", "e", "r">>,
     <<"F", "i", "r", "s", "t", " ", "B", "l", "o", "o", "d">>,
     <<"k", "i", "l", "l">>,
     <<"t", "o", "w", "e", "r">>,
     <<"b", "a", "r", "o", "n">>,
     <<"d", "r", "a", "g", "o", "n">>,
     <<"e", "n", "d", " ", "i", "n", " ", "a", " ", "d", "r", "a", "w">>,
     <<"X">>}

(* The questions of the classifier tests. *)
ManchesterQuestion ==
    <<"W", "i", "l", "l", " ", "M", "a", "n", "c", "h", "e", "s", "t",
    "e", "r", " ", "C", "i", "t", "y", " ", "w", "i", "n", " ", "o", "n",
    " ", "2", "0", "2", "6", "-", "0", "2", "-", "1", "4", "?">>

HandicapQuestion ==
    <<"H", "a", "n", "d", "i", "c", "a", "p", ":", " ", "T", "1", " ",
    "(", "-", "1", ".", "5", ")">>

FirstBloodQuestion ==
    <<"F", "i", "r", "s", "t", " ", "B", "l", "o", "o", "d", " ", "i",
    "n", " ", "G", "a", "m", "e", " ", "1", "?">>

TestQuestions == {ManchesterQuestion, HandicapQuestion, FirstBloodQuestion}

(* "", "Match Winner", "Winner", "Game 1 Winner", "Map 1", "Handicap",     *)
(* "Total".                                                                *)
GroupLabels ==
    {<<>>,
     <<"M", "a", "t", "c", "h", " ", "W", "i", "n", "n", "e", "r">>,
     <<"W", "i", "n", "n", "e", "r">>,
     <<"G", "a", "m", "e", " ", "1", " ", "W", "i", "n", "n", "e", "r">>,
     <<"M", "a", "p", " ", "1">>,
     <<"H", "a", "n", "d", "i", "c", "a", "p">>,
     <<"T", "o", "t", "a", "l">>}

RECURSIVE Join(_)
Join(ps) ==
    IF ps = <<>> THEN <<>>
    ELSE IF Len(ps) = 1 THEN ps[1]
    ELSE ps[1] \o <<" ">> \o Join(Tail(ps))

Questions == {Join(ps) : ps \in Lists(Phrases, MaxPhrases)} \cup TestQuestions

ClassifyInputs ==
    {[question |-> q, group_item_title |-> g] : q \in Questions, g \in GroupLabels}

InitClassify ==
    /\ pc = "call"
    /\ ret = <<>>
    /\ fn = "_classify_market"
    /\ args \in ClassifyInputs

CallClassifyMarket ==
    /\ pc = "call"
    /\ fn = "_classify_market"
    /\ ret' = _classify_market(args.question, args.group_item_title)
    /\ pc' = "done"
    /\ UNCHANGED <<fn, args>>

NextClassify == CallClassifyMarket

SpecClassify == InitClassify /\ [][NextClassify]_vars

----------------------------------------------------------------------------
(* clients.py: payloads and their conversion.  A payload value carries its *)
(* Python type; a dict is a function from its keys.  Two kinds of str are  *)
(* kept by what they hold, not character by character: IsoText(h, s) is    *)
(* the ISO 8601 date-time h hours after now written with the UTC-offset    *)
(* suffix s ("", "Z" or "+00:00"), and JsonText(x) is the JSON text of x.  *)

JNull == [t |-> "NoneType", v |-> <<>>]

JBool(b) == [t |-> "bool", v |-> b]

JNum(r) == [t |-> "float", v |-> r]

JStr(s) == [t |-> "str", v |-> s]

JList(xs) == [t |-> "list", v |-> xs]

JDict(d) == [t |-> "dict", v |-> d]

IsoText(hours, suffix) == [t |-> "str_iso", v |-> [hours |-> hours, suffix |-> suffix]]

JsonText(x) == [t |-> "str_json", v |-> x]

(* bool(x) *)
PyBool(x) ==
    CASE x.t = "NoneType" -> FALSE
      [] x.t = "bool" -> x.v
      [] x.t = "float" -> x.v # Zero
      [] x.t = "int" -> TRUE
      [] x.t = "str" -> x.v # <<>>
      [] x.t \in {"str_iso", "str_json"} -> TRUE
      [] x.t = "list" -> x.v # <<>>
      [] x.t = "dict" -> DOMAIN x.v # {}

(* a or b *)
PyOr(a, b) == IF PyBool(a) THEN a ELSE b

(* str(x) of a str, None or a bool. *)
PyStr(x) ==
    CASE x.t = "str" -> x.v
      [] x.t = "NoneType" -> <<"N", "o", "n", "e">>
      [] x.t = "bool" -> IF x.v THEN <<"T", "r", "u", "e">>
                         ELSE <<"F", "a", "l", "s", "e">>

DigitChars == <<"0", "1", "2", "3", "4", "5", "6", "7", "8", "9">>

(* ord(c) of a letter, a digit or a hyphen. *)
Ord(c) ==
    CASE \E i \in 1..26 : LowerCase[i] = c -> 96 + CHOOSE i \in 1..26 : LowerCase[i] = c
      [] \E i \in 1..26 : UpperCase[i] = c -> 64 + CHOOSE i \in 1..26 : UpperCase[i] = c
      [] \E i \in 1..10 : DigitChars[i] = c -> 47 + CHOOSE i \in 1..10 : DigitChars[i] = c
      [] c = "-" -> 45

CodePoints(s) == [i \in 1..Len(s) |-> Ord(s[i])]

IsDigit(c) == \E i \in 1..10 : DigitChars[i] = c

RECURSIVE Pow10(_)
Pow10(n) == IF n = 0 THEN 1 ELSE 10 * Pow10(n - 1)

(* The integer a sequence of digits writes. *)
RECURSIVE DigitsValue(_)
DigitsValue(ds) ==
    IF ds = <<>> THEN 0
    ELSE 10 * DigitsValue(SubSeq(ds, 1, Len(ds) - 1))
         + (CHOOSE i \in 0..9 : DigitChars[i + 1] = ds[Len(ds)])

(* float(s) of a str: an optional sign, digits and at most one point give  *)
(* the number; the other strs used here ("abc", "") raise ValueError,      *)
(* which is None.                                                          *)
ParseFloat(s) ==
    LET signed == s # <<>> /\ s[1] \in {"-", "+"}
        body == IF signed THEN Tail(s) ELSE s
        points == {i \in 1..Len(body) : body[i] = "."}
        digits == SelectSeq(body, IsDigit)
        fraction == IF points = {} THEN 0
                    ELSE Len(body) - (CHOOSE i \in points : TRUE)
        number == Rat(DigitsValue(digits), Pow10(fraction))
    IN IF /\ digits # <<>>
          /\ Cardinality(points) <= 1
          /\ \A i \in 1..Len(body) : IsDigit(body[i]) \/ body[i] = "."
       THEN Some(IF signed /\ s[1] = "-" THEN RSub(Zero, number) ELSE number)
       ELSE None

(* _to_float: None for None, "", and whatever float() rejects with         *)
(* TypeError or ValueError.                                                *)
_to_float(value) ==
    CASE value.t = "NoneType" -> None
      [] value.t = "float" -> Some(value.v)
      [] value.t = "bool" -> Some(IF value.v THEN One ELSE Zero)
      [] value.t = "str" -> IF value.v = <<>> THEN None ELSE ParseFloat(value.v)
      [] value.t \in {"str_iso", "str_json", "list", "dict"} -> None

(* _to_float(x) or 0.0 *)
FloatOrZero(x) == IF _to_float(x).some /\ _to_float(x).d # Zero THEN _to_float(x).d ELSE Zero

(* _to_dt: None for a false value and for text fromisoformat rejects; "Z"  *)
(* is replaced by "+00:00" first; text without an offset parses to a naive *)
(* datetime.                                                               *)
_to_dt(value) ==
    IF ~PyBool(value) THEN None
    ELSE CASE value.t = "str_iso" ->
                  IF value.v.suffix = "" THEN Naive(value.v.hours)
                  ELSE Aware(value.v.hours)
           [] value.t \in {"str", "str_json"} -> None

SPORT_HINTS ==
    {<<"s", "p", "o", "r", "t">>,
     <<"s", "p", "o", "r", "t", "s">>,
     <<"n", "b", "a">>,
     <<"n", "f", "l">>,
     <<"n", "h", "l">>,
     <<"m", "l", "b">>,
     <<"s", "o", "c", "c", "e", "r">>,
     <<"f", "o", "o", "t", "b", "a", "l", "l">>,
     <<"t", "e", "n", "n", "i", "s">>,
     <<"u", "f", "c">>}

SportTextKeys == <<"category", "groupItemTitle", "title", "question", "sport", "league">>

(* _is_sports_related with the tags never looked at. *)
_is_sports_related_TextOnly(item) ==
    LET text == Lower(Join([i \in 1..Len(SportTextKeys) |->
                               PyStr(Get(item, SportTextKeys[i], JStr(<<>>)))]))
    IN \E h \in SPORT_HINTS : In(h, text)

_is_sports_related(item) ==
    LET text == Lower(Join([i \in 1..Len(SportTextKeys) |->
                               PyStr(Get(item, SportTextKeys[i], JStr(<<>>)))]))
        tags == PyOr(Get(item, "tags", JNull), JList(<<>>))
        joined == Join([i \in 1..Len(tags.v) |-> Lower(PyStr(tags.v[i]))])
    IN IF \E h \in SPORT_HINTS : In(h, text) THEN TRUE
       ELSE IF tags.t = "list" /\ \E h \in SPORT_HINTS : In(h, joined) THEN TRUE
       ELSE FALSE

(* The Candidate collect_search_candidates builds from one item; the slug  *)
(* is kept as code points, the form choose_best_candidate compares.        *)
CandidateOf(item) ==
    Candidate(PyOr(PyOr(Get(item, "question", JNull), Get(item, "title", JNull)),
                   JStr(<<"U", "n", "k", "n", "o", "w", "n">>)).v,
              CodePoints(PyOr(Get(item, "slug", JNull), JStr(<<>>)).v),
              PyOr(Get(item, "type", JNull),
                   JStr(IF PyBool(Get(item, "markets", JNull))
                        THEN <<"e", "v", "e", "n", "t">>
                        ELSE <<"m", "a", "r", "k", "e", "t">>)).v,
              PyBool(Get(item, "active", JBool(FALSE))),
              PyBool(Get(item, "closed", JBool(TRUE))),
              FloatOrZero(PyOr(Get(item, "liquidity", JNull), Get(item, "liquidityNum", JNull))),
              FloatOrZero(PyOr(Get(item, "volume24hr", JNull), Get(item, "volume24Hr", JNull))),
              _to_dt(PyOr(Get(item, "startDate", JNull), Get(item, "startTime", JNull))),
              _is_sports_related(item))

SearchKeys == <<"markets", "events", "data", "results">>

(* The dict elements of the list under one key; nothing if it is no list. *)
ItemsUnder(search_payload, key) ==
    LET value == Get(search_payload, key, JNull)
    IN IF value.t = "list" THEN SelectSeq(value.v, LAMBDA x : x.t = "dict") ELSE <<>>

(* The items gathered under the first n of the keys. *)
RECURSIVE ItemsOf(_, _)
ItemsOf(search_payload, n) ==
    IF n = 0 THEN <<>>
    ELSE ItemsOf(search_payload, n - 1) \o ItemsUnder(search_payload, SearchKeys[n])

collect_search_candidates(search_payload) ==
    LET items == ItemsOf(search_payload, Len(SearchKeys))
    IN [i \in 1..Len(items) |-> CandidateOf(items[i].v)]

(* Search items: the two of test_selection.py, one without active and     *)
(* closed, and items whose start time and liquidity come in the forms a    *)
(* payload can hold (none, unparsable, "Z", "+00:00", no offset; number,   *)
(* numeric text, other text).                                              *)
TestItemNba ==
    JDict([slug |-> JStr(<<"n", "b", "a", "-", "a">>), question |-> JStr(<<"L", "a", "k", "e", "r", "s", " ", "v", "s", " ", "C", "e", "l", "t", "i", "c", "s">>),
           active |-> JBool(TRUE), closed |-> JBool(FALSE),
           liquidity |-> JNum(Rat(1000, 1)),
           tags |-> JList(<<JStr(<<"s", "p", "o", "r", "t", "s">>), JStr(<<"n", "b", "a">>)>>)])

TestItemCrypto ==
    JDict([slug |-> JStr(<<"c", "r", "y", "p", "t", "o", "-", "b">>), question |-> JStr(<<"W", "i", "l", "l", " ", "B", "T", "C", " ", "h", "i", "t", " ", "2", "0", "0", "k", "?">>),
           active |-> JBool(TRUE), closed |-> JBool(FALSE),
           liquidity |-> JNum(Rat(5000, 1)),
           tags |-> JList(<<JStr(<<"c", "r", "y", "p", "t", "o">>)>>)])

ItemNoFlags ==
    JDict([slug |-> JStr(<<"x">>), title |-> JStr(<<"N", "B", "A", " ", "F", "i", "n", "a", "l", "s">>),
           liquidity |-> JNum(Rat(9000, 1))])

ItemNaiveStart ==
    JDict([slug |-> JStr(<<"n">>), question |-> JStr(<<"T", "e", "n", "n", "i", "s", " ", "f", "i", "n", "a", "l">>),
           active |-> JBool(TRUE), closed |-> JBool(FALSE),
           startDate |-> IsoText(5, ""),
           liquidity |-> JStr(<<"2", "0", "0", "0">>)])

ItemZuluStart ==
    JDict([slug |-> JStr(<<"z">>), league |-> JStr(<<"U", "F", "C">>),
           active |-> JBool(TRUE), closed |-> JBool(FALSE),
           startTime |-> IsoText(-3, "Z"),
           liquidity |-> JStr(<<"a", "b", "c">>), volume24hr |-> JNum(Rat(10, 1))])

ItemBadStart ==
    JDict([slug |-> JStr(<<"u">>), category |-> JStr(<<"P", "o", "l", "i", "t", "i", "c", "s">>),
           active |-> JBool(TRUE), closed |-> JBool(FALSE),
           startDate |-> JStr(<<"s", "o", "o", "n">>),
           liquidityNum |-> JNum(Rat(100, 1)), tags |-> JNull])

ItemEvent ==
    JDict([slug |-> JStr(<<"e">>), title |-> JStr(<<"S", "o", "c", "c", "e", "r", " ", "c", "u", "p">>),
           active |-> JBool(TRUE), closed |-> JBool(FALSE),
           startDate |-> IsoText(5, "+00:00"),
           markets |-> JList(<<TestItemNba>>)])

SearchElements ==
    {TestItemNba, TestItemCrypto, ItemNoFlags, ItemNaiveStart, ItemZuluStart,
     ItemBadStart, ItemEvent, JStr(<<"j", "u", "n", "k">>)}

(* What a payload holds under a key: an element of its list, or a value    *)
(* that is the whole of it and no list.                                    *)
SearchEntries ==
    [key : {"markets", "events", "data", "results"}, element : SearchElements,
     whole : {FALSE}]
        \cup {[key |-> "data", element |-> JStr(<<"n", "o", "n", "e">>), whole |-> TRUE]}

(* The payload a sequence of entries writes: under each key the list of    *)
(* its elements in order, or the value that is the whole of it.            *)
PayloadOf(entries) ==
    LET keys == {entries[i].key : i \in DOMAIN entries}
    IN [k \in keys |->
           LET mine == SelectSeq(entries, LAMBDA e : e.key = k)
           IN IF \E i \in DOMAIN mine : mine[i].whole
              THEN mine[CHOOSE i \in DOMAIN mine : mine[i].whole].element
              ELSE JList([i \in 1..Len(mine) |-> mine[i].element])]

SearchPayloads == {PayloadOf(es) : es \in Lists(SearchEntries, MaxItems)}

InitCollect ==
    /\ pc = "call"
    /\ ret = <<>>
    /\ fn = "collect_search_candidates"
    /\ args \in {[search_payload |-> p] : p \in SearchPayloads}

CallCollectSearchCandidates ==
    /\ pc = "call"
    /\ fn = "collect_search_candidates"
    /\ ret' = collect_search_candidates(args.search_payload)
    /\ pc' = "done"
    /\ UNCHANGED <<fn, args>>

(* The selection applied to what was collected. *)
CallChooseOfCollected ==
    /\ pc = "done"
    /\ fn = "collect_search_candidates"
    /\ fn' = "choose_best_candidate"
    /\ args' = [candidates |-> ret]
    /\ ret' = choose_best_candidate(ret)
    /\ pc' = "done"

NextCollect == CallCollectSearchCandidates \/ CallChooseOfCollected

SpecCollect == InitCollect /\ [][NextCollect]_vars

(* An int too large for a float: float(x) raises OverflowError, which      *)
(* _to_float does not catch.                                               *)
JBigInt == [t |-> "int", v |-> "beyond float range"]

FloatOverflows(value) == value.t = "int"

(* The list a raw outcomes or prices value stands for: the list itself,    *)
(* the list its JSON text decodes to, and the empty list for JSON text of  *)
(* something else, text that is no JSON list, and every other type.        *)
NormalizedList(raw) ==
    IF raw.t = "list" THEN raw.v
    ELSE IF raw.t = "str_json" /\ raw.v.t = "list" THEN raw.v.v
    ELSE <<>>

_normalize_outcomes(raw) ==
    LET xs == NormalizedList(raw)
    IN [i \in 1..Len(xs) |-> PyStr(xs[i])]

(* max(0.0, min(1.0, x)) *)
Clamp01(x) == IF RLt(One, x) THEN One ELSE IF RLt(x, Zero) THEN Zero ELSE x

_normalize_prices(raw) ==
    LET xs == NormalizedList(raw)
    IN [i \in 1..Len(xs) |-> Clamp01(FloatOrZero(xs[i]))]

Outcome(name, price, token_id) ==
    [name |-> name, price |-> price, best_bid |-> None, best_ask |-> None,
     mid |-> None, spread |-> None, token_id |-> token_id, fee_rate_bps |-> None]

(* The values parse_market_payload hands to float(). *)
FloatArguments(payload) ==
    LET prices == NormalizedList(PyOr(PyOr(Get(payload, "outcomePrices", JNull),
                                           Get(payload, "prices", JNull)), JList(<<>>)))
    IN {prices[i] : i \in DOMAIN prices}
         \cup {PyOr(Get(payload, "liquidity", JNull), Get(payload, "liquidityNum", JNull)),
               PyOr(Get(payload, "volume24hr", JNull), Get(payload, "volume24Hr", JNull)),
               Get(payload, "openInterest", JNull)}

(* The MarketSnapshot (without fetched_at), or the OverflowError raised on *)
(* the way.                                                                *)
parse_market_payload(payload) ==
    LET outcomes_raw == _normalize_outcomes(PyOr(PyOr(Get(payload, "outcomes", JNull),
                                                      Get(payload, "tokens", JNull)),
                                                 JList(<<>>)))
        prices == _normalize_prices(PyOr(PyOr(Get(payload, "outcomePrices", JNull),
                                              Get(payload, "prices", JNull)), JList(<<>>)))
        token_ids_raw == PyOr(PyOr(Get(payload, "clobTokenIds", JNull),
                                   Get(payload, "token_ids", JNull)), JList(<<>>))
        token_ids == IF token_ids_raw.t = "list" THEN token_ids_raw.v ELSE <<>>
        outcomes == [idx \in 1..Len(outcomes_raw) |->
                        Outcome(outcomes_raw[idx],
                                IF idx <= Len(prices) THEN prices[idx] ELSE Zero,
                                IF idx <= Len(token_ids) THEN Some(PyStr(token_ids[idx]))
                                ELSE None)]
    IN IF \E x \in FloatArguments(payload) : FloatOverflows(x)
       THEN [raised |-> "OverflowError"]
       ELSE [raised |-> "",
             source |-> "gamma",
             title |-> PyOr(PyOr(Get(payload, "question", JNull), Get(payload, "title", JNull)),
                            JStr(<<"U", "n", "k", "n", "o", "w", "n">>)).v,
             slug |-> PyOr(Get(payload, "slug", JNull),
                           JStr(<<"u", "n", "k", "n", "o", "w", "n">>)).v,
             event_slug |-> Get(payload, "eventSlug", JNull),
             active |-> PyBool(Get(payload, "active", JBool(FALSE))),
             closed |-> PyBool(Get(payload, "closed", JBool(TRUE))),
             start_date |-> _to_dt(PyOr(Get(payload, "startDate", JNull),
                                        Get(payload, "startTime", JNull))),
             end_date |-> _to_dt(PyOr(Get(payload, "endDate", JNull),
                                      Get(payload, "endTime", JNull))),
             outcomes |-> outcomes,
             liquidity |-> _to_float(PyOr(Get(payload, "liquidity", JNull),
                                          Get(payload, "liquidityNum", JNull))),
             volume24hr |-> _to_float(PyOr(Get(payload, "volume24hr", JNull),
                                           Get(payload, "volume24Hr", JNull))),
             open_interest |-> _to_float(Get(payload, "openInterest", JNull)),
             raw |-> payload]

(* Outcome names, price values and token ids as payloads hold them. *)
NameValues == {JStr(<<"T", "e", "a", "m", " ", "A">>), JStr(<<"T", "e", "a", "m", " ", "B">>)}

PriceValues ==
    {JStr(<<"0", ".", "4", "2">>), JStr(<<"0", ".", "5", "8">>), JStr(<<"a", "b", "c">>),
     JNum(Rat(3, 2)), JNum(Rat(-1, 5)), JNull, JBigInt}

TokenValues == {JStr(<<"1">>), JStr(<<"2">>)}

(* A list as it may arrive: as a list or as its JSON text. *)
ListForms(U, n) ==
    {JList(xs) : xs \in Lists(U, n)} \cup {JsonText(JList(xs)) : xs \in Lists(U, n)}

(* A key the payload does not hold. *)
Absent == [t |-> "absent", v |-> <<>>]

(* The payload of test_clients.py with its outcomes, prices and token ids  *)
(* replaced or left out.                                                   *)
MarketPayload(outcomes, outcomePrices, clobTokenIds) ==
    LET given == [outcomes |-> outcomes, outcomePrices |-> outcomePrices,
                  clobTokenIds |-> clobTokenIds]
    IN [k \in {"slug", "question", "active", "closed"}
                \cup {g \in DOMAIN given : given[g] # Absent} |->
           CASE k = "slug" -> JStr(<<"a", "b", "c">>)
             [] k = "question" -> JStr(<<"T", "e", "a", "m", " ", "A", " ", "v", "s", " ", "T", "e", "a", "m", " ", "B">>)
             [] k = "active" -> JBool(TRUE)
             [] k = "closed" -> JBool(FALSE)
             [] OTHER -> given[k]]

MarketPayloads ==
    {MarketPayload(o, p, t) :
        o \in ListForms(NameValues, MaxListLen)
                \cup {Absent, JStr(<<"n", "o", "t", " ", "j", "s", "o", "n">>), JsonText(JNum(One))},
        p \in ListForms(PriceValues, MaxListLen) \cup {Absent, JStr(<<"n", "o", "t", " ", "j", "s", "o", "n">>)},
        t \in {Absent, JList(<<JStr(<<"1">>), JStr(<<"2">>)>>), JList(<<JStr(<<"1">>)>>),
               JsonText(JList(<<JStr(<<"1">>), JStr(<<"2">>)>>))}}

InitParse ==
    /\ pc = "call"
    /\ ret = <<>>
    /\ fn = "parse_market_payload"
    /\ args \in {[payload |-> p] : p \in MarketPayloads}

CallParseMarketPayload ==
    /\ pc = "call"
    /\ fn = "parse_market_payload"
    /\ ret' = parse_market_payload(args.payload)
    /\ pc' = "done"
    /\ UNCHANGED <<fn, args>>

NextParse == CallParseMarketPayload

SpecParse == InitParse /\ [][NextParse]_vars

----------------------------------------------------------------------------
(* parsing.py: extract_slug, with urllib.parse.urlparse as far as          *)
(* extract_slug uses it: the path of an http(s) URL.                       *)

Whitespace == {" ", "\t", "\n", "\r"}

(* str.strip() *)
RECURSIVE Strip(_)
Strip(s) ==
    IF s = <<>> THEN s
    ELSE IF s[1] \in Whitespace THEN Strip(Tail(s))
    ELSE IF s[Len(s)] \in Whitespace THEN Strip(SubSeq(s, 1, Len(s) - 1))
    ELSE s

(* URL_RE.match(text.strip()): "^https?://", case ignored. *)
is_url(text) ==
    LET t == Lower(Strip(text))
    IN \/ Len(t) >= 7 /\ SubSeq(t, 1, 7) = <<"h", "t", "t", "p", ":", "/", "/">>
       \/ Len(t) >= 8 /\ SubSeq(t, 1, 8) = <<"h", "t", "t", "p", "s", ":", "/", "/">>

(* The first position of s holding a character of cs, or Len(s) + 1. *)
Find(s, cs) ==
    IF \E i \in DOMAIN s : s[i] \in cs
    THEN CHOOSE i \in DOMAIN s : s[i] \in cs /\ \A j \in 1..(i - 1) : s[j] \notin cs
    ELSE Len(s) + 1

(* The last position of s holding c, or 0. *)
RFind(s, c) ==
    IF \E i \in DOMAIN s : s[i] = c
    THEN CHOOSE i \in DOMAIN s : s[i] = c /\ \A j \in (i + 1)..Len(s) : s[j] # c
    ELSE 0

(* urlparse(text) of a text that starts with http:// or https://: the      *)
(* netloc ends at the first of "/", "?", "#"; an opening or closing square *)
(* bracket alone in it raises ValueError; the fragment is cut at the first *)
(* "#", the query at the first "?", and the parameters at the first ";"    *)
(* after the last "/".                                                     *)
urlparse(text) ==
    LET after == SubSeq(text, Find(text, {":"}) + 3, Len(text))
        netloc == SubSeq(after, 1, Find(after, {"/", "?", "#"}) - 1)
        url == SubSeq(after, Len(netloc) + 1, Len(after))
        nofragment == SubSeq(url, 1, Find(url, {"#"}) - 1)
        noquery == SubSeq(nofragment, 1, Find(nofragment, {"?"}) - 1)
        slash == RFind(noquery, "/")
        tail == SubSeq(noquery, slash + 1, Len(noquery))
        path == SubSeq(noquery, 1, slash + Find(tail, {";"}) - 1)
    IN IF (In(<<"[">>, netloc) /\ ~In(<<"]">>, netloc))
            \/ (In(<<"]">>, netloc) /\ ~In(<<"[">>, netloc))
       THEN [raised |-> "ValueError", path |-> <<>>]
       ELSE [raised |-> "", path |-> path]

(* [p for p in path.split("/") if p] *)
RECURSIVE Segments(_)
Segments(path) ==
    IF path = <<>> THEN <<>>
    ELSE LET cut == Find(path, {"/"})
             head == SubSeq(path, 1, cut - 1)
             rest == Segments(SubSeq(path, cut + 1, Len(path)))
         IN IF head = <<>> THEN rest ELSE <<head>> \o rest

Event == <<"e", "v", "e", "n", "t">>

Market == <<"m", "a", "r", "k", "e", "t">>

Sports == <<"s", "p", "o", "r", "t", "s">>

SlugResult(kind, slug) == [raised |-> "", kind |-> kind, slug |-> slug]

extract_slug(input_text) ==
    LET text == Strip(input_text)
        parsed == urlparse(text)
        parts == Segments(parsed.path)
    IN IF ~is_url(text) THEN SlugResult(None, None)
       ELSE IF parsed.raised # "" THEN [raised |-> parsed.raised, kind |-> None, slug |-> None]
       ELSE IF Len(parts) < 2 THEN SlugResult(None, None)
       ELSE IF parts[1] \in {Event, Market} /\ parts[2] # <<>>
       THEN SlugResult(Some(parts[1]), Some(parts[2]))
       ELSE IF parts[1] = Sports /\ Len(parts) >= 3
       THEN SlugResult(Some(Event), Some(parts[Len(parts)]))
       ELSE SlugResult(None, None)

(* The pieces input texts are put together from. *)
Schemes == {<<"h", "t", "t", "p", "s", ":", "/", "/">>, <<"H", "T", "T", "P", ":", "/", "/">>, <<"f", "t", "p", ":", "/", "/">>, <<>>}

Hosts == {<<"p", "o", "l", "y", "m", "a", "r", "k", "e", "t", ".", "c", "o", "m">>, <<"[">>}

PathSegments ==
    {Event, Market, Sports,
     <<"n", "b", "a">>,
     <<"l", "a", "k", "e", "r", "s", "-", "c", "e", "l", "t", "i", "c", "s">>,
     <<"n", "b", "a", "-", "f", "i", "n", "a", "l", "s">>}

UrlSuffixes == {<<>>, <<"?", "f", "o", "o", "=", "1", "#", "x">>, <<"#", "x", ";", "y">>}

RECURSIVE JoinBy(_, _)
JoinBy(ps, sep) ==
    IF ps = <<>> THEN <<>>
    ELSE IF Len(ps) = 1 THEN ps[1]
    ELSE ps[1] \o sep \o JoinBy(Tail(ps), sep)

(* The text the pieces write. *)
TextOf(u) ==
    (IF u.padded THEN <<" ">> ELSE <<>>)
        \o u.scheme \o u.host
        \o (IF u.segments = <<>> THEN <<>> ELSE <<"/">> \o JoinBy(u.segments, <<"/">>))
        \o (IF u.slash THEN <<"/">> ELSE <<>>)
        \o u.suffix
        \o (IF u.padded THEN <<" ">> ELSE <<>>)

SlugInputs ==
    {[input_text |-> TextOf(u), pieces |-> u] :
        u \in [scheme : Schemes, host : Hosts,
               segments : Lists(PathSegments, MaxSegments),
               slash : BOOLEAN, suffix : UrlSuffixes, padded : BOOLEAN]}

InitSlug ==
    /\ pc = "call"
    /\ ret = <<>>
    /\ fn = "extract_slug"
    /\ args \in SlugInputs

CallExtractSlug ==
    /\ pc = "call"
    /\ fn = "extract_slug"
    /\ ret' = extract_slug(args.input_text)
    /\ pc' = "done"
    /\ UNCHANGED <<fn, args>>

NextSlug == CallExtractSlug

SpecSlug == InitSlug /\ [][NextSlug]_vars

----------------------------------------------------------------------------
(* analysis.py: the data gathering of analyze (event by slug, market by    *)
(* slug, search) and the classification that follows it.  What the Gamma   *)
(* API answers to each request is an input: an exception after the         *)
(* retries, or the decoded JSON.                                           *)

Raises == [raised |-> TRUE, data |-> JNull]

Answers(data) == [raised |-> FALSE, data |-> data]

(* parse_market_payload(m) of any JSON value: m.get raises AttributeError  *)
(* unless m is a dict.                                                     *)
ParseItem(m) ==
    IF m.t # "dict" THEN [raised |-> "AttributeError"] ELSE parse_market_payload(m.v)

(* The snapshots of the leading elements of ms that parse. *)
RECURSIVE ParsedPrefix(_)
ParsedPrefix(ms) ==
    IF ms = <<>> \/ ParseItem(ms[1]).raised # "" THEN <<>>
    ELSE <<ParseItem(ms[1])>> \o ParsedPrefix(Tail(ms))

AllParse(ms) == Len(ParsedPrefix(ms)) = Len(ms)

Fetched(event_title, markets, swallowed) ==
    [event_title |-> event_title, markets |-> markets, swallowed |-> swallowed]

_fetch_event_markets(response) ==
    LET raw == response.data
        markets_raw == Get(raw.v, "markets", JList(<<>>))
    IN IF response.raised THEN Fetched(None, <<>>, TRUE)
       ELSE IF ~(PyBool(raw) /\ raw.t = "dict") THEN Fetched(None, <<>>, FALSE)
       ELSE IF ~PyBool(markets_raw) THEN Fetched(None, <<>>, FALSE)
       ELSE IF markets_raw.t # "list" \/ ~AllParse(markets_raw.v)
       THEN Fetched(None, <<>>, TRUE)
       ELSE Fetched(Some(Get(raw.v, "title", JStr(<<"U", "n", "k", "n", "o", "w", "n", " ", "E", "v", "e", "n", "t">>)).v),
                    ParsedPrefix(markets_raw.v), FALSE)

_fetch_single_market(response) ==
    LET raw == response.data
    IN IF response.raised THEN Fetched(None, <<>>, TRUE)
       ELSE IF ~PyBool(raw) THEN Fetched(None, <<>>, FALSE)
       ELSE IF ParseItem(raw).raised # "" THEN Fetched(None, <<>>, TRUE)
       ELSE Fetched(Some(ParseItem(raw).title), <<ParseItem(raw)>>, FALSE)

(* The try block of the search fallback, entered with the event_title and  *)
(* markets of the steps before it; query is the slug or the text.  An      *)
(* exception ends the block where it is raised: what was assigned or       *)
(* appended before it stays.                                               *)
SearchFallback(response, query, event_title, markets) ==
    LET search_result == response.data
        from_markets == Get(search_result.v, "markets", JList(<<>>))
        from_events == Get(search_result.v, "events", JList(<<>>))
        items == from_markets.v \o from_events.v
        first == items[1]
        first_markets == Get(first.v, "markets", JNull)
    IN IF response.raised \/ search_result.t # "dict"
       THEN Fetched(event_title, markets, TRUE)
       ELSE IF from_markets.t # "list" \/ from_events.t # "list"
       THEN Fetched(event_title, markets, TRUE)
       ELSE IF items = <<>> THEN Fetched(event_title, markets, FALSE)
       ELSE IF first.t # "dict" THEN Fetched(event_title, markets, TRUE)
       ELSE IF PyBool(first_markets)
       THEN IF first_markets.t # "list"
            THEN Fetched(Some(Get(first.v, "title", JStr(query)).v), markets, TRUE)
            ELSE Fetched(Some(Get(first.v, "title", JStr(query)).v),
                         markets \o ParsedPrefix(first_markets.v),
                         ~AllParse(first_markets.v))
       ELSE IF ParseItem(first).raised # "" THEN Fetched(event_title, markets, TRUE)
       ELSE Fetched(Some(ParseItem(first).title), <<ParseItem(first)>>, FALSE)

(* The classification loop: the category of each market in order. *)
Classified(markets) ==
    [i \in DOMAIN markets |->
        LET raw == markets[i].raw
            question == PyOr(Get(raw, "question", JStr(<<>>)), JStr(markets[i].title)).v
            git == PyOr(Get(raw, "groupItemTitle", JStr(<<>>)), JStr(<<>>)).v
        IN _classify_market(question, git)]

(* Inputs: the texts, and what each request is answered with. *)
AnalyzeTexts ==
    {<<"h", "t", "t", "p", "s", ":", "/", "/", "p", "o", "l", "y", "m", "a", "r", "k", "e", "t", ".", "c", "o", "m", "/", "e", "v", "e", "n", "t", "/", "n", "b", "a", "-", "f", "i", "n", "a", "l", "s", "/">>,
     <<"l", "a", "k", "e", "r", "s", " ", "c", "e", "l", "t", "i", "c", "s">>,
     <<"h", "t", "t", "p", ":", "/", "/", "[">>}

OverflowMarket ==
    JDict([slug |-> JStr(<<"o">>), question |-> JStr(<<"W", "i", "l", "l", " ", "L", "a", "k", "e", "r", "s", " ", "w", "i", "n", "?">>),
           active |-> JBool(TRUE), closed |-> JBool(FALSE), liquidity |-> JBigInt])

EventWithBrokenMarket ==
    JDict([slug |-> JStr(<<"b">>), title |-> JStr(<<"C", "h", "e", "s", "s", " ", "c", "u", "p">>),
           active |-> JBool(TRUE), closed |-> JBool(FALSE),
           markets |-> JList(<<TestItemCrypto, JStr(<<"j", "u", "n", "k">>)>>)])

EventResponses ==
    {Raises, Answers(JNull), Answers(ItemEvent), Answers(EventWithBrokenMarket),
     Answers(JDict([title |-> JStr(<<"E", "m", "p", "t", "y", " ", "e", "v", "e", "n", "t">>), markets |-> JList(<<>>)]))}

MarketResponses ==
    {Raises, Answers(JNull), Answers(TestItemNba), Answers(OverflowMarket)}

ResolveItems ==
    {TestItemNba, TestItemCrypto, ItemNoFlags, EventWithBrokenMarket}

SearchResponses ==
    {Raises, Answers(JNull), Answers(JDict([markets |-> JNull]))}
        \cup {Answers(JDict([markets |-> JList(ms), events |-> JList(es)])) :
                ms \in Lists(ResolveItems, MaxSearchItems),
                es \in {<<>>, <<ItemEvent>>}}

AnalyzeInputs ==
    [text : AnalyzeTexts, event : EventResponses, market : MarketResponses,
     search : SearchResponses]

(* The local variables of analyze, and the requests made so far. *)
InitResolve ==
    /\ pc = "call"
    /\ fn = "analyze"
    /\ args \in AnalyzeInputs
    /\ ret = [slug_type |-> None, slug |-> None, event_title |-> None, markets |-> <<>>,
              requests |-> <<>>, swallowed |-> {}, classified |-> <<>>, result |-> ""]

(* slug_type, slug = extract_slug(text); an exception leaves analyze. *)
AnalyzeExtractSlug ==
    /\ pc = "call"
    /\ fn = "analyze"
    /\ LET found == extract_slug(args.text)
       IN IF found.raised # ""
          THEN /\ ret' = [ret EXCEPT !.result = found.raised]
               /\ pc' = "done"
          ELSE /\ ret' = [ret EXCEPT !.slug_type = found.kind, !.slug = found.slug]
               /\ pc' = IF found.kind # None /\ found.slug # None THEN "event" ELSE "search"
    /\ UNCHANGED <<fn, args>>

(* One lookup step: the request, and what becomes of the locals. *)
Step(request, fetched, next) ==
    /\ ret' = [ret EXCEPT !.event_title = fetched.event_title,
                          !.markets = fetched.markets,
                          !.requests = @ \o <<request>>,
                          !.swallowed = IF fetched.swallowed THEN @ \cup {request} ELSE @]
    /\ pc' = IF fetched.markets # <<>> THEN "gathered" ELSE next
    /\ UNCHANGED <<fn, args>>

AnalyzeFetchEventMarkets ==
    /\ pc = "event"
    /\ fn = "analyze"
    /\ Step("fetch_event_by_slug", _fetch_event_markets(args.event), "market")

(* if snap: event_title = snap.title; markets = [snap] *)
AnalyzeFetchSingleMarket ==
    /\ pc = "market"
    /\ fn = "analyze"
    /\ LET fetched == _fetch_single_market(args.market)
       IN Step("fetch_market_by_slug",
               IF fetched.markets # <<>> THEN fetched
               ELSE Fetched(ret.event_title, ret.markets, fetched.swallowed),
               "search")

AnalyzeSearch ==
    /\ pc = "search"
    /\ fn = "analyze"
    /\ Step("search",
            SearchFallback(args.search,
                           IF ret.slug # None THEN ret.slug.d ELSE Strip(args.text),
                           ret.event_title, ret.markets),
            "gathered")

AnalyzeReturnNotFound ==
    /\ pc = "gathered"
    /\ fn = "analyze"
    /\ ret.markets = <<>>
    /\ ret' = [ret EXCEPT !.result = "market not found"]
    /\ pc' = "done"
    /\ UNCHANGED <<fn, args>>

AnalyzeClassify ==
    /\ pc = "gathered"
    /\ fn = "analyze"
    /\ ret.markets # <<>>
    /\ ret' = [ret EXCEPT !.classified = Classified(ret.markets), !.result = "report"]
    /\ pc' = "done"
    /\ UNCHANGED <<fn, args>>

NextResolve ==
    \/ AnalyzeExtractSlug
    \/ AnalyzeFetchEventMarkets
    \/ AnalyzeFetchSingleMarket
    \/ AnalyzeSearch
    \/ AnalyzeReturnNotFound
    \/ AnalyzeClassify

SpecResolve == InitResolve /\ [][NextResolve]_vars

----------------------------------------------------------------------------
(* analysis.py: the matching of reference odds to an outcome in the        *)
(* moneyline loop of analyze.  ref_odds is the dict parse_reference_odds   *)
(* gives, as its entries in insertion order; every value is above 1.0.     *)

(* The first entry whose name is contained in the label, contains the      *)
(* label, or is contained in the outcome name, case ignored, gives the     *)
(* fair probability; with none, the fair probability stays.                *)
RECURSIVE MatchReference(_, _, _, _)
MatchReference(ref_odds, label, name, fair) ==
    IF ref_odds = <<>> THEN [fair |-> fair, matched_ref |-> FALSE]
    ELSE LET ref_name == ref_odds[1].name
             ref_val == ref_odds[1].odds
         IN IF \/ In(Lower(ref_name), Lower(label))
               \/ In(Lower(label), Lower(ref_name))
               \/ In(Lower(ref_name), Lower(name))
            THEN [fair |-> IF RLt(Zero, ref_val) THEN RDiv(One, ref_val) ELSE fair,
                  matched_ref |-> TRUE]
            ELSE MatchReference(Tail(ref_odds), label, name, fair)

ManCity == <<"M", "a", "n", " ", "C", "i", "t", "y">>

ManchesterCityWin == <<"M", "a", "n", "c", "h", "e", "s", "t", "e", "r", " ", "C", "i", "t", "y", " ", "W", "i", "n">>

(* Outcome names; _market_label gives the name itself as the label of an   *)
(* outcome that is not Yes or No.                                          *)
ReferenceOutcomeNames == {ManchesterCityWin, <<"L", "a", "k", "e", "r", "s">>, <<"L", "A", " ", "L", "a", "k", "e", "r", "s">>, <<"A", "r", "s", "e", "n", "a", "l">>}

ReferenceNames == {ManCity, <<"m", "a", "n", "c", "h", "e", "s", "t", "e", "r", " ", "c", "i", "t", "y">>, <<"l", "a", "k", "e", "r", "s">>, <<"A", "r", "s", "e", "n", "a", "l", " ", "F", "C">>, <<"O", "G">>}

ReferenceOddsValues == {Rat(3, 2), Rat(4, 1)}

(* Dicts of at most MaxRefs entries: the names differ. *)
ReferenceOdds ==
    {r \in Lists([name : ReferenceNames, odds : ReferenceOddsValues], MaxRefs) :
        \A i, j \in DOMAIN r : i # j => r[i].name # r[j].name}

InitMatch ==
    /\ pc = "call"
    /\ ret = <<>>
    /\ fn = "analyze"
    /\ args \in [ref_odds : ReferenceOdds, name : ReferenceOutcomeNames,
                 fair : {Rat(1, 2), Rat(2, 5)}]

AnalyzeMatchReference ==
    /\ pc = "call"
    /\ fn = "analyze"
    /\ ret' = MatchReference(args.ref_odds, args.name, args.name, args.fair)
    /\ pc' = "matched"
    /\ UNCHANGED <<fn, args>>

NextMatch == AnalyzeMatchReference

SpecMatch == InitMatch /\ [][NextMatch]_vars

----------------------------------------------------------------------------
(* clients.py: GammaClient._get and _request, with the cache.  The locals  *)
(* of the call in progress, the cache and what the network has answered    *)
(* are the fields of ret; args is the call in progress.                    *)

stop_after_attempt == 5

(* The keys f"gamma::{path}::{params}" of two lookups. *)
CacheKeys == {"gamma::/events/slug/a::None", "gamma::/markets/slug/a::None"}

(* What r.json() may give: null, an empty list, a document. *)
Responses == {JNull, JList(<<>>), JDict([slug |-> JStr(<<"a">>)])}

(* cache.get(key): the value stored, None when nothing is stored. *)
CacheGet(cache, key) == IF cache[key].some THEN cache[key].d ELSE JNull

(* The test of _get as "if cached:". *)
IsCached_Truthy(cached) == PyBool(cached)

(* if cached is not None *)
IsCached(cached) == cached # JNull

LastCall(key, requested, outcome, data) ==
    [key |-> key, requested |-> requested, outcome |-> outcome, data |-> data]

InitCache ==
    /\ pc = "idle"
    /\ fn = "GammaClient._get"
    /\ args = <<>>
    /\ ret = [cache |-> [k \in CacheKeys |-> None], received |-> {}, succeeded |-> {},
              attempt |-> 0, calls |-> 0, last |-> LastCall("", FALSE, "", JNull)]

(* _get up to the await: the cached value is returned, or the request      *)
(* begins.                                                                 *)
GetBegin(key) ==
    /\ pc = "idle"
    /\ ret.calls < MaxCalls
    /\ args' = [key |-> key]
    /\ LET cached == CacheGet(ret.cache, key)
       IN IF IsCached(cached)
          THEN /\ ret' = [ret EXCEPT !.calls = @ + 1,
                                     !.last = LastCall(key, FALSE, "returned", cached)]
               /\ pc' = "idle"
          ELSE /\ ret' = [ret EXCEPT !.calls = @ + 1, !.attempt = 1,
                                     !.last = LastCall(key, TRUE, "pending", JNull)]
               /\ pc' = "request"
    /\ UNCHANGED fn

(* An attempt fails with an error the retry covers, and another follows. *)
RequestRetry ==
    /\ pc = "request"
    /\ ret.attempt < stop_after_attempt
    /\ ret' = [ret EXCEPT !.attempt = @ + 1]
    /\ UNCHANGED <<fn, args, pc>>

(* The last attempt fails, or an attempt fails with an error the retry     *)
(* does not cover (or without tenacity): the error leaves _get.            *)
RequestRaise ==
    /\ pc = "request"
    /\ ret' = [ret EXCEPT !.last = LastCall(args.key, TRUE, "raised", JNull)]
    /\ pc' = "idle"
    /\ UNCHANGED <<fn, args>>

(* An attempt returns r.json(); _get stores it and returns it. *)
RequestSucceed(data) ==
    /\ pc = "request"
    /\ ret' = [ret EXCEPT !.cache[args.key] = Some(data),
                          !.received = @ \cup {<<args.key, data>>},
                          !.succeeded = @ \cup {args.key},
                          !.last = LastCall(args.key, TRUE, "returned", data)]
    /\ pc' = "idle"
    /\ UNCHANGED <<fn, args>>

(* cache_ttl_seconds after it was stored, an entry is gone. *)
Expire(key) ==
    /\ pc = "idle"
    /\ ret.cache[key].some
    /\ ret' = [ret EXCEPT !.cache[key] = None]
    /\ UNCHANGED <<fn, args, pc>>

NextCache ==
    \/ \E key \in CacheKeys : GetBegin(key)
    \/ RequestRetry
    \/ RequestRaise
    \/ \E data \in Responses : RequestSucceed(data)
    \/ \E key \in CacheKeys : Expire(key)

SpecCache == InitCache /\ [][NextCache]_vars

----------------------------------------------------------------------------
(* webapp.py: PolyBetApp.  The Tk main loop runs the handlers one at a     *)
(* time (_on_analyze on a click or on Return, _show_result as the callback *)
(* of root.after); each analysis runs in a thread of its own.  ret holds   *)
(* the fields of the app, the threads that are analysing and the callbacks *)
(* waiting in the main loop; args is the input of the last handler.        *)

(* The badge _run_analysis works out of the result, or that of an error. *)
Badges == {"recommend", "pass", "done"}

ErrorBadge == "error"

(* The text of the URL field: empty, blank, or a URL. *)
UrlTexts == {<<>>, <<" ">>, <<"h", "t", "t", "p", "s", ":", "/", "/", "p", "o", "l", "y", "m", "a", "r", "k", "e", "t", ".", "c", "o", "m", "/", "s", "p", "o", "r", "t", "s", "/", "n", "b", "a">>}

InitGui ==
    /\ pc = "mainloop"
    /\ fn = "PolyBetApp"
    /\ args = <<>>
    /\ ret = [_running |-> FALSE, btn |-> "normal", badge |-> "", threads |-> {},
              after |-> <<>>, events |-> 0, started |-> 0, warnings |-> 0]

(* _on_analyze without the test of _running. *)
_on_analyze_Unguarded(url_var) ==
    /\ pc = "mainloop"
    /\ ret.events < MaxEvents
    /\ args' = [url |-> url_var]
    /\ IF Strip(url_var) = <<>>
       THEN ret' = [ret EXCEPT !.events = @ + 1, !.warnings = @ + 1]
       ELSE ret' = [ret EXCEPT !.events = @ + 1,
                               !._running = TRUE,
                               !.btn = "disabled",
                               !.badge = "",
                               !.started = @ + 1,
                               !.threads = @ \cup {ret.started + 1}]
    /\ UNCHANGED <<fn, pc>>

(* A click on the button or Return in the URL field. *)
_on_analyze(url_var) ==
    /\ pc = "mainloop"
    /\ ret.events < MaxEvents
    /\ args' = [url |-> url_var]
    /\ IF Strip(url_var) = <<>>
       THEN ret' = [ret EXCEPT !.events = @ + 1, !.warnings = @ + 1]
       ELSE IF ret._running
       THEN ret' = [ret EXCEPT !.events = @ + 1]
       ELSE ret' = [ret EXCEPT !.events = @ + 1,
                               !._running = TRUE,
                               !.btn = "disabled",
                               !.badge = "",
                               !.started = @ + 1,
                               !.threads = @ \cup {ret.started + 1}]
    /\ UNCHANGED <<fn, pc>>

(* The thread's analyze returns: the badge is worked out and _show_result  *)
(* is handed to the main loop.                                             *)
RunAnalysisReturns(thread, badge) ==
    /\ thread \in ret.threads
    /\ ret' = [ret EXCEPT !.threads = @ \ {thread}, !.after = Append(@, badge)]
    /\ UNCHANGED <<fn, args, pc>>

(* The thread's analyze raises: _show_result is handed to the main loop    *)
(* with the error.                                                         *)
RunAnalysisRaises(thread) ==
    /\ thread \in ret.threads
    /\ ret' = [ret EXCEPT !.threads = @ \ {thread}, !.after = Append(@, ErrorBadge)]
    /\ UNCHANGED <<fn, args, pc>>

(* The main loop runs the callback that waits longest. *)
_show_result ==
    /\ pc = "mainloop"
    /\ ret.after # <<>>
    /\ ret' = [ret EXCEPT !.after = Tail(@),
                          !.badge = Head(ret.after),
                          !.btn = "normal",
                          !._running = FALSE]
    /\ UNCHANGED <<fn, args, pc>>

NextGui ==
    \/ \E url_var \in UrlTexts : _on_analyze(url_var)
    \/ \E thread \in 1..MaxEvents, badge \in Badges : RunAnalysisReturns(thread, badge)
    \/ \E thread \in 1..MaxEvents : RunAnalysisRaises(thread)
    \/ _show_result

SpecGui == InitGui /\ [][NextGui]_vars

(* A thread that was started runs until analyze has returned or raised,    *)
(* and the main loop runs every callback handed to it.                     *)
SpecGuiFair ==
    /\ SpecGui
    /\ WF_vars(\E thread \in 1..MaxEvents :
                  \/ \E badge \in Badges : RunAnalysisReturns(thread, badge)
                  \/ RunAnalysisRaises(thread))
    /\ WF_vars(_show_result)

----------------------------------------------------------------------------
(* Properties of math_utils.py, checked under Spec.                        *)

Returned(f) == pc = "done" /\ fn = f

(* max(0, w), the weight as the claims count it. *)
Clamp(w) == IF RLt(w, Zero) THEN Zero ELSE w

(* The sum of the non-negative weights of a dict. *)
PositiveTotal(d) == SumValues([k \in DOMAIN d |-> Clamp(d[k])])

NoneRaised(d) == \A k \in DOMAIN d : ~Raised(d[k])

(* C1: normalize_probs keeps exactly the input keys and never raises; if   *)
(* the sum of the non-negative weights is <= 0 every key maps to 0,        *)
(* otherwise each key maps to max(0, weight) / that sum, so that the       *)
(* returned value times the sum is the clamped weight.                     *)
C1_NormalizeContract ==
    Returned("normalize_probs") =>
        LET total == PositiveTotal(args.values)
        IN /\ DOMAIN ret = DOMAIN args.values
           /\ NoneRaised(ret)
           /\ \A k \in DOMAIN ret :
                IF RLe(total, Zero)
                THEN ret[k] = Zero
                ELSE RMul(ret[k], total) = Clamp(args.values[k])

(* A call with a negative, a zero and a positive weight. *)
C1_Witness ==
    /\ Returned("normalize_probs")
    /\ \E j, k, l \in DOMAIN args.values :
        /\ RLt(args.values[j], Zero) /\ ret[j] = Zero
        /\ args.values[l] = Zero
        /\ RLt(Zero, args.values[k]) /\ ret[k] = One

NonNegative(d) == \A k \in DOMAIN d : RLe(Zero, d[k])

(* C2: for non-negative weights the returned values sum to 1 when the      *)
(* total input weight is positive and to 0 when it is 0.                   *)
C2_NormalizeSum ==
    (Returned("normalize_probs") /\ NonNegative(args.values)) =>
        IF RLt(Zero, SumValues(args.values))
        THEN SumValues(ret) = One
        ELSE SumValues(ret) = Zero

(* Three positive, unequal weights whose normalised values sum to 1. *)
C2_Witness ==
    /\ Returned("normalize_probs")
    /\ NonNegative(args.values)
    /\ Cardinality(DOMAIN args.values) = 3
    /\ \E j, k \in DOMAIN args.values :
        RLt(Zero, args.values[j]) /\ RLt(args.values[j], args.values[k])
    /\ SumValues(ret) = One

ValidOdds(odds) == {k \in DOMAIN odds : RLt(One, odds[k])}

(* The sum of 1/odds over the kept outcomes. *)
InverseTotal(odds) == SumValues([k \in ValidOdds(odds) |-> Rat(odds[k][2], odds[k][1])])

(* C3: devig_decimal_odds returns exactly the outcomes whose odds are      *)
(* > 1.0 and never raises; each value is (1/odds) / sum of 1/odds over the *)
(* kept outcomes; equal odds give equal probabilities, and the values sum  *)
(* to 1 whenever at least one odds value is valid.                         *)
C3_DevigContract ==
    Returned("devig_decimal_odds") =>
        /\ DOMAIN ret = ValidOdds(args.odds)
        /\ NoneRaised(ret)
        /\ \A k \in DOMAIN ret :
            RMul(RMul(ret[k], args.odds[k]), InverseTotal(args.odds)) = One
        /\ \A j, k \in DOMAIN ret : args.odds[j] = args.odds[k] => ret[j] = ret[k]
        /\ ValidOdds(args.odds) # {} => SumValues(ret) = One

(* Two-way odds 1.9 / 1.9 next to an invalid 1.0: 0.5 / 0.5. *)
C3_Witness ==
    /\ Returned("devig_decimal_odds")
    /\ \E j, k, l \in DOMAIN args.odds :
        /\ j # k
        /\ args.odds[j] = Rat(19, 10) /\ args.odds[k] = Rat(19, 10)
        /\ args.odds[l] = One
        /\ DOMAIN ret = {j, k}
        /\ ret[j] = Rat(1, 2) /\ ret[k] = Rat(1, 2)


(* The sources of a blend, as the claims name them. *)
MidPresent == Truthy(args.mids)

RefPresent == Truthy(args.ref)

SourceUnion ==
    DOMAIN args.prices
        \cup (IF MidPresent THEN DOMAIN args.mids.d ELSE {})
        \cup (IF RefPresent THEN DOMAIN args.ref.d ELSE {})

(* The value a source contributes for outcome o: its own, else the market  *)
(* price; the market price of an outcome the market does not list is 0.0.  *)
MarketOf(o) == IF o \in DOMAIN args.prices THEN args.prices[o] ELSE Zero

MidOf(o) == IF o \in DOMAIN args.mids.d THEN args.mids.d[o] ELSE MarketOf(o)

RefOf(o) == IF o \in DOMAIN args.ref.d THEN args.ref.d[o] ELSE MarketOf(o)

(* Ten times the fixed weighted sum for outcome o (weights in tenths). *)
TenfoldBlend(o) ==
    LET w == IF MidPresent /\ RefPresent THEN [r |-> 5, m |-> 3, p |-> 2]
             ELSE IF RefPresent THEN [r |-> 7, m |-> 0, p |-> 3]
             ELSE [r |-> 0, m |-> 6, p |-> 4]
    IN RAdd(RAdd(RMul(Rat(w.r, 1), RefOf(o)), RMul(Rat(w.m, 1), MidOf(o))),
            RMul(Rat(w.p, 1), MarketOf(o)))

TenfoldTotal == SumValues([o \in SourceUnion |-> TenfoldBlend(o)])

(* C4: with more than one source present, every outcome of the union gets  *)
(* the fixed weighted sum (60/40 mid/market, 70/30 reference/market,       *)
(* 50/30/20 reference/mid/market), normalised over the union.              *)
C4_BlendWeights ==
    (Returned("blended_fair_probs") /\ (MidPresent \/ RefPresent)) =>
        /\ DOMAIN ret[1] = SourceUnion
        /\ \A o \in SourceUnion :
            IF RLt(Zero, TenfoldTotal)
            THEN RMul(ret[1][o], TenfoldTotal) = TenfoldBlend(o)
            ELSE ret[1][o] = Zero

(* A three-source blend of two outcomes on which the sources disagree. *)
C4_Witness ==
    /\ Returned("blended_fair_probs")
    /\ MidPresent /\ RefPresent
    /\ DOMAIN args.prices = {"A", "B"}
    /\ DOMAIN args.mids.d = {"A", "B"}
    /\ DOMAIN args.ref.d = {"A", "B"}
    /\ args.prices["A"] = Rat(1, 2) /\ args.prices["B"] = Rat(1, 2)
    /\ args.mids.d["A"] = Rat(1, 4) /\ args.mids.d["B"] = Rat(1, 2)
    /\ args.ref.d["A"] = Rat(1, 2) /\ args.ref.d["B"] = Rat(1, 4)
    /\ ret[1]["A"] = Rat(17, 32) /\ ret[1]["B"] = Rat(15, 32)

(* C5: with market prices only the result is the normalised market prices  *)
(* and the no-external-reference label; with a reference source the label  *)
(* is another one.                                                         *)
C5_MarketOnly ==
    Returned("blended_fair_probs") =>
        /\ (~MidPresent /\ ~RefPresent) =>
            /\ ret[2] = "NO EDGE (no external reference)"
            /\ DOMAIN ret[1] = DOMAIN args.prices
            /\ \A o \in DOMAIN ret[1] :
                IF RLt(Zero, SumValues(args.prices))
                THEN RMul(ret[1][o], SumValues(args.prices)) = args.prices[o]
                ELSE ret[1][o] = Zero
        /\ RefPresent => ret[2] # "NO EDGE (no external reference)"

(* Market prices 0.25 / 0.5 alone: 1/3 and 2/3. *)
C5_Witness ==
    /\ Returned("blended_fair_probs")
    /\ ~MidPresent /\ ~RefPresent
    /\ DOMAIN args.prices = {"A", "B"}
    /\ args.prices["A"] = Rat(1, 4) /\ args.prices["B"] = Rat(1, 2)
    /\ ret[1]["A"] = Rat(1, 3) /\ ret[1]["B"] = Rat(2, 3)
    /\ ret[2] = "NO EDGE (no external reference)"

(* C6: for every outcome of the output, a value missing from a present     *)
(* source is replaced by the outcome's market price and never by zero,     *)
(* also for an outcome that the market-price mapping does not list         *)
(* (stated for markets that quote a positive price).                       *)
C6_FallbackToMarket ==
    (Returned("blended_fair_probs") /\ PositiveTotal(args.prices) # Zero) =>
        \A o \in DOMAIN ret[1] :
            LET t == BlendTerms(args.prices, args.mids, args.ref, o)
                Replaced(v) == IF o \in DOMAIN args.prices
                               THEN v = args.prices[o]
                               ELSE v # Zero
            IN /\ (MidPresent /\ o \notin DOMAIN args.mids.d) => Replaced(t.m)
               /\ (RefPresent /\ o \notin DOMAIN args.ref.d) => Replaced(t.r)

(* Some present source gives some outcome a positive value. *)
SomePositive == \E o \in SourceUnion :
    RLt(Zero, MarketOf(o)) \/ RLt(Zero, MidOf(o)) \/ RLt(Zero, RefOf(o))

(* C7 as stated: the result is defined over the union of the present       *)
(* sources' outcome names and sums to 1.0, for every input (stated for     *)
(* markets that list an outcome).                                          *)
C7_AlwaysSumsToOne ==
    (Returned("blended_fair_probs") /\ DOMAIN args.prices # {}) =>
        /\ DOMAIN ret[1] = SourceUnion
        /\ SumValues(ret[1]) = One

(* C7: the result is defined over the union of the present sources'        *)
(* outcome names; it sums to 1.0 when some present source gives some       *)
(* outcome a positive value, and otherwise every value is 0.0.             *)
C7_SumsToOneUnlessAllZero ==
    Returned("blended_fair_probs") =>
        /\ DOMAIN ret[1] = SourceUnion
        /\ NoneRaised(ret[1])
        /\ IF SomePositive
           THEN SumValues(ret[1]) = One
           ELSE \A o \in DOMAIN ret[1] : ret[1][o] = Zero

(* A mid-only outcome next to a market-only outcome: both are returned. *)
C7_Witness ==
    /\ Returned("blended_fair_probs")
    /\ DOMAIN args.prices = {"A"} /\ RLt(Zero, args.prices["A"])
    /\ MidPresent /\ DOMAIN args.mids.d = {"B"} /\ RLt(Zero, args.mids.d["B"])
    /\ DOMAIN ret[1] = {"A", "B"}
    /\ SumValues(ret[1]) = One

InOpenUnit(x) == RLt(Zero, x) /\ RLt(x, One)

InClosedUnit(x) == RLe(Zero, x) /\ RLe(x, One)

(* k = (b*p - q)/b with b = (1 - price)/price, in closed form. *)
FullKelly(p, price) == RDiv(RSub(p, price), RSub(One, price))

(* C8: fractional_kelly_fraction never raises, returns a value >= 0, which *)
(* is 0 when price is outside (0,1) or p outside [0,1], and otherwise      *)
(* max(0, k * max(0, f)).                                                  *)
C8_KellyContract ==
    Returned("fractional_kelly_fraction") =>
        /\ ~Raised(ret)
        /\ RLe(Zero, ret)
        /\ IF InOpenUnit(args.price) /\ InClosedUnit(args.prob)
           THEN ret = Clamp(RMul(FullKelly(args.prob, args.price), Clamp(args.fraction)))
           ELSE ret = Zero

(* price = 0 with a probability in range: 0, and no division by zero. *)
C8_Witness ==
    /\ Returned("fractional_kelly_fraction")
    /\ args.price = Zero
    /\ args.prob = Rat(1, 2)
    /\ args.fraction = Rat(1, 4)
    /\ ret = Zero

----------------------------------------------------------------------------
(* Properties of analyze, checked under SpecAnalyze.                       *)

Recommended(v) == v \in {"strong_recommend", "recommend"}

(* Net EV as the evaluator is specified: edge minus the total cost. *)
NetEV(item, snap) ==
    RSub(RSub(item.fair, item.price),
         CostTotal(estimate_cost_for_outcome(snap.outcomes[item.name], snap.liquidity)))

EffectiveSpread(o) == IF o.spread.some THEN o.spread.d ELSE Rat(1, 100)

GatesPass(item, snap) ==
    /\ snap.liquidity.some /\ RLe(liq_min, snap.liquidity.d)
    /\ RLe(EffectiveSpread(snap.outcomes[item.name]), spread_max)
    /\ RLe(ev_min, NetEV(item, snap))

(* C10: an outcome is recommended if and only if liquidity >= liq_min,     *)
(* effective spread <= spread_max and net EV >= ev_min (stated for         *)
(* snapshots of known liquidity with at least two outcomes).               *)
C10_RecommendIffGates ==
    (Returned("analyze") /\ args.snap.liquidity.some /\ Len(args.snap.outcomes) >= 2) =>
        \A i \in DOMAIN ret.shown :
            Recommended(ret.shown[i].verdict) <=> GatesPass(ret.shown[i].item, args.snap)

(* A snapshot of known liquidity with at least two outcomes. *)
TwoWayKnown == args.snap.liquidity.some /\ Len(args.snap.outcomes) >= 2

(* C11: for every evaluated outcome the reported edge is fair probability  *)
(* minus market price, and the net EV is that edge minus the total cost    *)
(* estimate_cost_for_outcome gives for the outcome and the snapshot's      *)
(* liquidity.                                                              *)
C11_EdgeAndNetEV ==
    (Returned("analyze") /\ TwoWayKnown) =>
        \A i \in DOMAIN ret.all_outcomes :
            LET item == ret.all_outcomes[i]
            IN /\ item.edge = RSub(item.fair, item.price)
               /\ (item.ev = NetEV(item, args.snap) \/ item.raw_ev = NetEV(item, args.snap))

GateLines == {"failed_ev", "failed_liquidity", "failed_spread"}

(* C12: whenever an outcome is not recommended, the result states at least *)
(* one failing gate (EV, liquidity or spread).                             *)
C12_PassHasReason ==
    (Returned("analyze") /\ TwoWayKnown) =>
        \A i \in DOMAIN ret.shown :
            ~Recommended(ret.shown[i].verdict) => ret.shown[i].lines \cap GateLines # {}

RECURSIVE SumKelly(_)
SumKelly(items) ==
    IF items = <<>> THEN Zero
    ELSE RAdd(SumKelly(SubSeq(items, 1, Len(items) - 1)), items[Len(items)].kelly)

(* C13: the Kelly fraction reported for an outcome never exceeds           *)
(* max_bet_pct, and the stakes of one analysis together never exceed       *)
(* max_daily_exposure of the bankroll.                                     *)
C13_StakeCaps ==
    (Returned("analyze") /\ TwoWayKnown) =>
        /\ \A i \in DOMAIN ret.all_outcomes : RLe(ret.all_outcomes[i].kelly, max_bet_pct)
        /\ RLe(SumKelly(ret.all_outcomes), max_daily_exposure)

----------------------------------------------------------------------------
(* Properties of the cost model, checked under SpecCost.                   *)

(* C14: spread-cost is half the spread when known, else 0.01; fee-cost is  *)
(* fee_rate_bps / 10000 when known, else 0; slippage-cost is 0.02 for      *)
(* unknown liquidity, 0.03 below 2000, 0.015 from 2000 to below 10000 and  *)
(* 0.0075 from 10000 on; the total is their sum and no component is        *)
(* negative.                                                               *)
C14_CostContract ==
    Returned("estimate_cost_for_outcome") =>
        LET o == args.outcome
            l == args.liquidity
        IN /\ IF o.spread.some
              THEN RAdd(ret.spread, ret.spread) = o.spread.d
              ELSE ret.spread = Rat(1, 100)
           /\ IF o.fee_rate_bps.some
              THEN RMul(ret.fee, Rat(10000, 1)) = o.fee_rate_bps.d
              ELSE ret.fee = Zero
           /\ ~l.some => ret.slippage = Rat(2, 100)
           /\ (l.some /\ RLt(l.d, Rat(2000, 1))) => ret.slippage = Rat(3, 100)
           /\ (l.some /\ RLe(Rat(2000, 1), l.d) /\ RLt(l.d, Rat(10000, 1)))
                => ret.slippage = Rat(15, 1000)
           /\ (l.some /\ RLe(Rat(10000, 1), l.d)) => ret.slippage = Rat(75, 10000)
           /\ RLe(Zero, ret.spread) /\ RLe(Zero, ret.fee) /\ RLe(Zero, ret.slippage)
           /\ CostTotal(ret) = RAdd(ret.spread, RAdd(ret.fee, ret.slippage))

(* Spread 0.02, 30 bps, liquidity 15000: 0.01, 0.003, total 0.0205. *)
C14_Witness ==
    /\ Returned("estimate_cost_for_outcome")
    /\ args.outcome.spread = Some(Rat(2, 100))
    /\ args.outcome.fee_rate_bps = Some(Rat(30, 1))
    /\ args.liquidity = Some(Rat(15000, 1))
    /\ ret.spread = Rat(1, 100)
    /\ ret.fee = Rat(3, 1000)
    /\ RLt(Rat(1, 100), CostTotal(ret))

(* C15: for a fixed outcome the total cost never increases with liquidity: *)
(* the cost at the call's liquidity is at least the cost at every higher   *)
(* liquidity and at most the cost at every lower one.                      *)
C15_CostMonotonic ==
    (Returned("estimate_cost_for_outcome") /\ args.liquidity.some) =>
        \A l2 \in CostLiquidityValues :
            LET other == CostTotal(estimate_cost_for_outcome(args.outcome, Some(l2)))
            IN /\ RLe(args.liquidity.d, l2) => RLe(other, CostTotal(ret))
               /\ RLe(l2, args.liquidity.d) => RLe(CostTotal(ret), other)

(* Liquidity 1999 costs strictly more than liquidity 2000. *)
C15_Witness ==
    /\ Returned("estimate_cost_for_outcome")
    /\ args.liquidity = Some(Rat(1999, 1))
    /\ ret.slippage = Rat(3, 100)
    /\ RLt(CostTotal(estimate_cost_for_outcome(args.outcome, Some(Rat(2000, 1)))),
           CostTotal(ret))

----------------------------------------------------------------------------
(* Properties of choose_best_candidate, checked under SpecSelect.          *)

Eligible(c) == c.active /\ ~c.closed /\ c.slug # <<>>

(* The pool the claims call selected: the eligible sports-related          *)
(* candidates if there is one, else all eligible candidates.               *)
SelectedPool(candidates) ==
    LET eligible == {candidates[i] : i \in {j \in DOMAIN candidates :
                                               Eligible(candidates[j])}}
        sports == {c \in eligible : c.sports_related}
    IN IF sports # {} THEN sports ELSE eligible

(* C16: only active, not closed candidates with a non-empty slug are       *)
(* eligible; the result comes from the eligible sports-related candidates  *)
(* when there is one, even if a non-sports candidate has more liquidity,   *)
(* and from all eligible candidates otherwise; the result is None exactly  *)
(* when no candidate is eligible.                                          *)
C16_FilterAndSportsPreference ==
    Returned("choose_best_candidate") =>
        LET selected == SelectedPool(args.candidates)
        IN /\ (ret.kind = "None") <=> (selected = {})
           /\ ret.kind = "Candidate" =>
                 /\ ret.value \in selected
                 /\ \A c \in selected : ~RLt(ret.value.liquidity, c.liquidity)

(* A sports candidate with liquidity 1000 is returned although an eligible *)
(* non-sports candidate has 2000 and an inactive sports one has 2000.      *)
C16_Witness ==
    /\ Returned("choose_best_candidate")
    /\ Len(args.candidates) = 3
    /\ \E i, j, k \in 1..3 :
          /\ Eligible(args.candidates[i]) /\ ~args.candidates[i].sports_related
          /\ args.candidates[i].liquidity = Rat(2000, 1)
          /\ ~args.candidates[j].active /\ args.candidates[j].sports_related
          /\ args.candidates[j].liquidity = Rat(2000, 1)
          /\ Eligible(args.candidates[k]) /\ args.candidates[k].sports_related
          /\ args.candidates[k].liquidity = Rat(1000, 1)
    /\ ret.kind = "Candidate"
    /\ ret.value.sports_related
    /\ ret.value.liquidity = Rat(1000, 1)

(* a comes strictly before b: more liquidity; then more 24h volume; then   *)
(* a start time nearer to now, an unknown one last; then the smaller slug. *)
ComesBefore(a, b) ==
    \/ RLt(b.liquidity, a.liquidity)
    \/ /\ a.liquidity = b.liquidity
       /\ RLt(b.volume24hr, a.volume24hr)
    \/ /\ a.liquidity = b.liquidity
       /\ a.volume24hr = b.volume24hr
       /\ a.start_date.some
       /\ b.start_date.some => Abs(a.start_date.d.hours) < Abs(b.start_date.d.hours)
    \/ /\ a.liquidity = b.liquidity
       /\ a.volume24hr = b.volume24hr
       /\ a.start_date.some = b.start_date.some
       /\ a.start_date.some => Abs(a.start_date.d.hours) = Abs(b.start_date.d.hours)
       /\ StrLt(a.slug, b.slug)

KeysDefined(pool) == \A c \in pool : c.start_date.some => c.start_date.d.aware

(* C17: a returned candidate is a minimum of the selected pool under the   *)
(* order (liquidity descending, 24h volume descending, distance of the     *)
(* start time from now ascending with unknown last, slug ascending), and   *)
(* one is returned whenever the pool is not empty and every start time in  *)
(* it can be measured against now.                                         *)
C17_LexicographicMinimum ==
    Returned("choose_best_candidate") =>
        LET selected == SelectedPool(args.candidates)
        IN /\ ret.kind = "Candidate" =>
                 /\ ret.value \in selected
                 /\ \A c \in selected : ~ComesBefore(c, ret.value)
           /\ (selected # {} /\ KeysDefined(selected)) => ret.kind = "Candidate"

(* test_selection.py: A (1000, 500, +5h), B (2000, 100, +10h) and          *)
(* C (2000, 300, +20h) give C: more volume beats the nearer start.         *)
C17_Witness ==
    /\ Returned("choose_best_candidate")
    /\ Len(args.candidates) = 3
    /\ args.candidates[1].slug = <<97>> /\ args.candidates[1].volume24hr = Rat(500, 1)
    /\ args.candidates[2].slug = <<98>> /\ args.candidates[2].start_date = Aware(10)
    /\ args.candidates[3].slug = <<99>> /\ args.candidates[3].start_date = Aware(20)
    /\ ret.kind = "Candidate"
    /\ ret.value = args.candidates[3]

Reorderings(n) == {p \in [1..n -> 1..n] : \A i, j \in 1..n : p[i] = p[j] => i = j}

(* C18: the result does not depend on the order of the input list: every   *)
(* reordering of the candidates gives the same result.                     *)
C18_OrderIndependent ==
    Returned("choose_best_candidate") =>
        \A p \in Reorderings(Len(args.candidates)) :
            choose_best_candidate([i \in 1..Len(args.candidates) |->
                                      args.candidates[p[i]]]) = ret

----------------------------------------------------------------------------
(* Properties of _classify_market, checked under SpecClassify.             *)

(* The number of the first rule of the fixed order whose predicate holds   *)
(* on the lower-cased question q and group label g.                        *)
FirstRule(q, g) ==
    LET holds == <<g = MatchWinner \/ (In(Winner, g) /\ ~In(Game, g)),
                   In(Handicap, q) \/ In(Handicap, g),
                   In(Total, q) \/ In(OU, q) \/ In(OverUnder, q),
                   (In(Will, q) /\ In(Win, q)) \/ In(Winner, g),
                   \E k \in PropKeywords : In(k, q),
                   In(Will, q) /\ (In(Win, q) \/ In(EndInADraw, q)),
                   TRUE>>
    IN CHOOSE n \in 1..7 : holds[n] /\ \A m \in 1..(n - 1) : ~holds[m]

(* The categories of the rules; rule 4 has two. *)
RuleCategories ==
    <<{"moneyline"}, {"handicap"}, {"total"}, {"game_winner", "moneyline"},
      {"prop"}, {"moneyline"}, {"other"}>>

(* C19: the result is one of the six categories and is a category of the   *)
(* first rule that matches the lower-cased inputs: the group label "match  *)
(* winner" gives moneyline whatever the question says, handicap comes      *)
(* before total, and the three test questions with an empty group label    *)
(* give moneyline, handicap and prop.                                      *)
C19_FirstMatchingRule ==
    Returned("_classify_market") =>
        LET q == Lower(args.question)
            g == Lower(args.group_item_title)
        IN /\ ret \in {"moneyline", "handicap", "total", "game_winner", "prop", "other"}
           /\ ret \in RuleCategories[FirstRule(q, g)]
           /\ g = MatchWinner => ret = "moneyline"
           /\ (g # MatchWinner /\ ~In(Winner, g) /\ In(Handicap, q)) => ret = "handicap"
           /\ (g = <<>> /\ In(Handicap, q)) => ret = "handicap"
           /\ (g = <<>> /\ args.question = ManchesterQuestion) => ret = "moneyline"
           /\ (g = <<>> /\ args.question = FirstBloodQuestion) => ret = "prop"

(* "Handicap Total" under the group label "Match Winner" is moneyline. *)
C19_Witness ==
    /\ Returned("_classify_market")
    /\ In(Handicap, Lower(args.question))
    /\ In(Total, Lower(args.question))
    /\ Lower(args.group_item_title) = MatchWinner
    /\ args.group_item_title # MatchWinner
    /\ ret = "moneyline"

(* C20: when rule 4 is the first rule that matches, the result is          *)
(* game_winner if the question or the group label contains "game" or       *)
(* "map", and moneyline otherwise.                                         *)
C20_GameWinnerOnGameOrMap ==
    Returned("_classify_market") =>
        LET q == Lower(args.question)
            g == Lower(args.group_item_title)
        IN FirstRule(q, g) = 4 =>
             ret = IF In(Game, q) \/ In(Map, q) \/ In(Game, g) \/ In(Map, g)
                   THEN "game_winner"
                   ELSE "moneyline"

----------------------------------------------------------------------------
(* Properties of the candidate collection, checked under SpecCollect.      *)

(* C23: selection is total: choose_best_candidate applied to what          *)
(* collect_search_candidates returns gives a Candidate or None and never   *)
(* raises, whatever the items' start times and liquidity fields hold.      *)
C23_SelectionTotal ==
    Returned("choose_best_candidate") => ret.kind \in {"Candidate", "None"}

(* The dict items of a payload in the order of the keys markets, events,   *)
(* data, results.                                                          *)
DictItems(search_payload) ==
    LET under(k) == IF k \in DOMAIN search_payload /\ search_payload[k].t = "list"
                    THEN SelectSeq(search_payload[k].v, LAMBDA x : x.t = "dict")
                    ELSE <<>>
    IN under("markets") \o under("events") \o under("data") \o under("results")

(* Some sport hint occurs in one of the item's text fields or in one of    *)
(* its tags, case ignored.                                                 *)
HintOccurs(item) ==
    \E h \in SPORT_HINTS :
        \/ \E k \in {"category", "groupItemTitle", "title", "question", "sport", "league"} :
              k \in DOMAIN item /\ item[k].t = "str" /\ In(h, Lower(item[k].v))
        \/ /\ "tags" \in DOMAIN item
           /\ item["tags"].t = "list"
           /\ \E j \in DOMAIN item["tags"].v : In(h, Lower(item["tags"].v[j].v))

(* C26: collect_search_candidates returns one Candidate per dict item      *)
(* under markets, events, data, results, in that order; a candidate is     *)
(* sports_related iff a sport hint occurs in its item's text fields or     *)
(* tags; an item without active and closed fields becomes inactive and     *)
(* closed, and choose_best_candidate never returns it.                     *)
C26_CollectContract ==
    Returned("collect_search_candidates") =>
        LET items == DictItems(args.search_payload)
        IN /\ Len(ret) = Len(items)
           /\ \A i \in DOMAIN items :
                /\ ret[i].slug = CodePoints(items[i].v["slug"].v)
                /\ ret[i].sports_related <=> HintOccurs(items[i].v)
                /\ ({"active", "closed"} \cap DOMAIN items[i].v = {}) =>
                      /\ ~ret[i].active
                      /\ ret[i].closed
                      /\ LET best == choose_best_candidate(ret)
                         IN ~(best.kind = "Candidate" /\ best.value = ret[i])

(* test_selection.py: the item tagged sports and nba is sports-related,    *)
(* the one tagged crypto is not.                                           *)
C26_Witness ==
    /\ Returned("collect_search_candidates")
    /\ DOMAIN args.search_payload = {"markets"}
    /\ args.search_payload["markets"] = JList(<<TestItemNba, TestItemCrypto>>)
    /\ Len(ret) = 2
    /\ ret[1].sports_related
    /\ ~ret[2].sports_related

----------------------------------------------------------------------------
(* Properties of parse_market_payload, checked under SpecParse.            *)

(* The list a payload gives under a key, as a list or as JSON text. *)
GivenList(payload, key) ==
    IF key \notin DOMAIN payload THEN <<>>
    ELSE IF payload[key].t = "list" THEN payload[key].v
    ELSE IF payload[key].t = "str_json" /\ payload[key].v.t = "list" THEN payload[key].v.v
    ELSE <<>>

(* The outcomes pair the i-th name with the i-th price and the i-th token  *)
(* id (token ids are read from a list only); a price is the number given   *)
(* brought into [0,1], and 0.0 if it is missing or no number.              *)
PairedInOrder(payload, outcomes) ==
    LET names == GivenList(payload, "outcomes")
        prices == GivenList(payload, "outcomePrices")
        tokens == IF "clobTokenIds" \in DOMAIN payload /\ payload["clobTokenIds"].t = "list"
                  THEN payload["clobTokenIds"].v ELSE <<>>
    IN /\ Len(outcomes) = Len(names)
       /\ \A i \in DOMAIN outcomes :
            /\ outcomes[i].name = names[i].v
            /\ RLe(Zero, outcomes[i].price) /\ RLe(outcomes[i].price, One)
            /\ i > Len(prices) => outcomes[i].price = Zero
            /\ (i <= Len(prices) /\ prices[i].t = "float") =>
                  outcomes[i].price = RMax(Zero, IF RLt(One, prices[i].v) THEN One
                                                 ELSE prices[i].v)
            /\ (i <= Len(prices) /\ prices[i] \in {JNull, JStr(<<"a", "b", "c">>)}) =>
                  outcomes[i].price = Zero
            /\ IF i <= Len(tokens) THEN outcomes[i].token_id = Some(tokens[i].v)
               ELSE outcomes[i].token_id = None

(* C24: parse_market_payload takes outcomes and outcomePrices as lists or  *)
(* as JSON text, builds one Outcome per name in order with the i-th price  *)
(* and token id, every price within [0,1], a missing price 0.0 and a       *)
(* missing token id None, and raises on no input.                          *)
C24_ParseContract ==
    Returned("parse_market_payload") =>
        /\ ret.raised = ""
        /\ PairedInOrder(args.payload, ret.outcomes)

(* Every call that returns pairs the outcomes in order. *)
PairedWheneverReturned ==
    (Returned("parse_market_payload") /\ ret.raised = "") =>
        PairedInOrder(args.payload, ret.outcomes)

----------------------------------------------------------------------------
(* Properties of parsing.py: extract_slug.                                 *)

(* What the pieces of an input text make of it: for an http(s) URL whose   *)
(* path starts with /event/ or /market/ the kind and the second segment,   *)
(* for /sports/{league}/{slug} an event and the last segment, otherwise    *)
(* (None, None).                                                           *)
SlugOfPieces(u) ==
    IF Lower(u.scheme) \notin {<<"h", "t", "t", "p", ":", "/", "/">>, <<"h", "t", "t", "p", "s", ":", "/", "/">>} THEN <<None, None>>
    ELSE IF Len(u.segments) >= 2 /\ u.segments[1] \in {Event, Market}
    THEN <<Some(u.segments[1]), Some(u.segments[2])>>
    ELSE IF Len(u.segments) >= 3 /\ u.segments[1] = Sports
    THEN <<Some(Event), Some(u.segments[Len(u.segments)])>>
    ELSE <<None, None>>

(* C25: extract_slug returns, without raising, the kind and slug of an     *)
(* http(s) URL under /event/ or /market/ (second path segment, whatever    *)
(* the query string, fragment or trailing slash) or under                  *)
(* /sports/{league}/{slug} (an event, last segment), and (None, None) for  *)
(* every other input; the kind is None exactly when the slug is None.      *)
C25_ExtractSlugContract ==
    Returned("extract_slug") =>
        /\ ret.raised = ""
        /\ <<ret.kind, ret.slug>> = SlugOfPieces(args.pieces)
        /\ (ret.kind = None) <=> (ret.slug = None)

(* Whenever extract_slug returns, it returns what C25 describes. *)
SlugWheneverReturned ==
    (Returned("extract_slug") /\ ret.raised = "") =>
        /\ <<ret.kind, ret.slug>> = SlugOfPieces(args.pieces)
        /\ (ret.kind = None) <=> (ret.slug = None)

----------------------------------------------------------------------------
(* Properties of analysis.py: the data gathering of analyze.               *)

(* The items of a search result the candidate selector looks at. *)
SearchItems == ItemsOf(args.search.data.v, Len(SearchKeys))

(* The markets analysed when the item is the one resolved to: the markets  *)
(* of an event, the market itself otherwise.                               *)
ItemMarkets(item) ==
    IF PyBool(Get(item.v, "markets", JNull)) THEN ParsedPrefix(Get(item.v, "markets", JNull).v)
    ELSE <<ParseItem(item)>>

(* The request was made. *)
Requested(request) == \E i \in DOMAIN ret.requests : ret.requests[i] = request

Searched == fn = "analyze" /\ pc \in {"gathered", "done"} /\ Requested("search")

(* C21: when analyze falls back to a search that returns several items and *)
(* choose_best_candidate selects one of them, the markets analysed are     *)
(* those of the selected item.                                             *)
C21_SearchAnalysesBestCandidate ==
    (/\ Searched
     /\ ~args.search.raised
     /\ args.search.data.t = "dict"
     /\ Len(SearchItems) >= 2) =>
        LET best == choose_best_candidate(collect_search_candidates(args.search.data.v))
        IN best.kind = "Candidate" =>
              \E i \in DOMAIN SearchItems :
                  /\ CandidateOf(SearchItems[i].v) = best.value
                  /\ ret.markets = ItemMarkets(SearchItems[i])

----------------------------------------------------------------------------
(* Properties of analysis.py: reference odds.                              *)

(* One name contains the other, case ignored. *)
Contains(a, b) == In(Lower(a), Lower(b)) \/ In(Lower(b), Lower(a))

(* The reference entries whose name matches the outcome by containment. *)
MatchingRefs == {i \in DOMAIN args.ref_odds : Contains(args.ref_odds[i].name, args.name)}

(* C22: an outcome has matched_ref set exactly when a reference name and   *)
(* the outcome's name contain one another, case ignored, its fair          *)
(* probability is then the inverse of such a reference's odds, and the     *)
(* reference "Man City" is matched to the outcome "Manchester City Win".   *)
C22_ReferenceMatchedByContainment ==
    pc = "matched" =>
        /\ ret.matched_ref <=> MatchingRefs # {}
        /\ ret.matched_ref =>
              \E i \in MatchingRefs : ret.fair = RDiv(One, args.ref_odds[i].odds)
        /\ (/\ args.name = ManchesterCityWin
            /\ \E i \in DOMAIN args.ref_odds : args.ref_odds[i].name = ManCity)
              => ret.matched_ref

(* Apart from the variant "Man City", matching is containment. *)
MatchedByContainment ==
    pc = "matched" =>
        /\ ret.matched_ref <=> MatchingRefs # {}
        /\ ret.matched_ref =>
              \E i \in MatchingRefs : ret.fair = RDiv(One, args.ref_odds[i].odds)

----------------------------------------------------------------------------
(* Properties of analysis.py: recommendation and edge.                     *)

(* C27: an outcome with a recommending verdict (displayed EV above 0.5:    *)
(* strong recommend or recommend; the first such item is the bet           *)
(* recommendation of the final summary) has a fair probability strictly    *)
(* above its market price, whatever the outcome prices in (0,1].           *)
C27_RecommendOnlyAboveEdge ==
    (/\ Returned("analyze")
     /\ \A k \in DOMAIN args.snap.outcomes :
           RLt(Zero, args.snap.outcomes[k].price) /\ RLe(args.snap.outcomes[k].price, One)) =>
        \A i \in DOMAIN ret.shown :
            Recommended(ret.shown[i].verdict) =>
                RLt(ret.shown[i].item.price, ret.shown[i].item.fair)


(* The text gave a slug: extract_slug returned a kind and a slug. *)
SlugGiven == ret.slug_type # None /\ ret.slug # None

(* Lookups have begun: extract_slug has returned. *)
Resolving == fn = "analyze" /\ pc # "call" /\ ret.result \notin {"ValueError"}

LookupOrder == <<"fetch_event_by_slug", "fetch_market_by_slug", "search">>

(* The requests run in the order event, market, search for a slug and are  *)
(* the search alone otherwise; a request made with markets at hand is the  *)
(* last one.                                                               *)
LookupsInOrder ==
    /\ IF SlugGiven THEN ret.requests = SubSeq(LookupOrder, 1, Len(ret.requests))
       ELSE ret.requests = SubSeq(<<"search">>, 1, Len(ret.requests))
    /\ pc \in {"event", "market", "search"} => ret.markets = <<>>
    /\ pc = "event" <=> (SlugGiven /\ ret.requests = <<>>)
    /\ pc = "market" => ret.requests = <<"fetch_event_by_slug">>
    /\ pc = "search" => ret.requests \in {<<>>, <<"fetch_event_by_slug", "fetch_market_by_slug">>}

(* The error string is returned exactly when no step produced markets, and *)
(* nothing is classified then.                                             *)
NotFoundIffNoMarkets ==
    pc = "done" =>
        /\ ret.result = "market not found" <=> ret.markets = <<>>
        /\ ret.markets = <<>> => ret.classified = <<>>
        /\ ret.markets # <<>> => Len(ret.classified) = Len(ret.markets)

(* C28: in analyze the lookups run in the order event by slug, market by   *)
(* slug, search for a URL with a slug, each only when the earlier ones     *)
(* produced no markets, and the search alone for other text; a step whose  *)
(* exception was swallowed leaves no markets; the 'market not found' error *)
(* is returned exactly when no step produced markets, and nothing is       *)
(* classified then.                                                        *)
C28_LookupOrderAndNotFound ==
    Resolving =>
        /\ LookupsInOrder
        /\ (ret.requests # <<>> /\ ret.requests[Len(ret.requests)] \in ret.swallowed)
              => ret.markets = <<>>
        /\ NotFoundIffNoMarkets

(* All of C28 but the part on swallowed exceptions. *)
LookupOrderWithoutExceptions ==
    Resolving => LookupsInOrder /\ NotFoundIffNoMarkets

----------------------------------------------------------------------------
(* Properties of clients.py: GammaClient._get and the cache.               *)

(* A step that begins a call of _get. *)
GetBegins == pc = "idle" /\ ret'.calls # ret.calls

(* A value that is not None is cached for the key. *)
HoldsValue(cache, key) == cache[key].some /\ cache[key].d # JNull

(* A request is made exactly when no value that is not None is cached. *)
RequestIffNotCached ==
    GetBegins => (ret'.last.requested <=> ~HoldsValue(ret.cache, args'.key))

(* The cache is written only when _request has returned, with what it      *)
(* returned, and every cached value was received for its key.              *)
WrittenAfterSuccess ==
    /\ (\E k \in CacheKeys : ret'.cache[k] # ret.cache[k] /\ ret'.cache[k].some) =>
          /\ pc = "request"
          /\ ret'.last = LastCall(args.key, TRUE, "returned", ret'.cache[args.key].d)
    /\ \A k \in CacheKeys : ret'.cache[k].some => <<k, ret'.cache[k].d>> \in ret'.received

(* A fetch that fails leaves the cache as it was and ends the call; a      *)
(* call ends with an error only so.                                        *)
FailureKeepsCache ==
    /\ (pc = "request" /\ ret'.last.outcome = "raised") =>
          ret'.cache = ret.cache /\ pc' = "idle"
    /\ (ret'.last.outcome = "raised" /\ ret.last.outcome # "raised") => pc = "request"

(* C29 as stated: _get makes a request exactly when no value that is not   *)
(* None is cached for the key, writes the cache only after _request        *)
(* returned, every cached value was received for its key, a failed fetch   *)
(* leaves the cache unchanged and raises, and a _get for a key after a     *)
(* success for that key makes no request.                                  *)
C29_SecondGetNeverRequests ==
    [][/\ RequestIffNotCached
       /\ WrittenAfterSuccess
       /\ FailureKeepsCache
       /\ (GetBegins /\ args'.key \in ret.succeeded) => ~ret'.last.requested]_vars

(* C29: _get makes a request exactly when no value that is not None is     *)
(* cached for the key, writes the cache only after _request returned,      *)
(* every cached value was received for its key, a failed fetch leaves the  *)
(* cache unchanged and raises, and a _get for a key after a success for    *)
(* that key makes no request while the value received, not None, is still  *)
(* cached.                                                                 *)
C29_CacheContract ==
    [][/\ RequestIffNotCached
       /\ WrittenAfterSuccess
       /\ FailureKeepsCache
       /\ (GetBegins /\ args'.key \in ret.succeeded /\ HoldsValue(ret.cache, args'.key))
             => ~ret'.last.requested]_vars

(* A second call for a key is answered from the cache after a failed call  *)
(* for the other key.                                                      *)
C29_Witness ==
    /\ fn = "GammaClient._get"
    /\ pc = "idle"
    /\ ret.calls = 3
    /\ ret.last.key \in ret.succeeded
    /\ ~ret.last.requested
    /\ ret.last.outcome = "returned"
    /\ ret.last.data = ret.cache[ret.last.key].d
    /\ \E k \in CacheKeys : k \notin ret.succeeded /\ ~ret.cache[k].some

----------------------------------------------------------------------------
(* Properties of webapp.py: PolyBetApp.                                    *)

(* An analysis is under way: a thread is analysing, or its result waits    *)
(* for the main loop.                                                      *)
InFlight == Cardinality(ret.threads) + Len(ret.after)

(* C30: at most one analysis is in flight at any time; _on_analyze starts  *)
(* a thread only when _running is False, having set it True; clicks and    *)
(* Return presses while it is True start nothing; and every analysis that  *)
(* was started, whether analyze returns or raises, leads to _show_result,  *)
(* which sets _running to False and enables the button.                    *)
C30_OneAnalysisAndNeverStuck ==
    /\ [](InFlight <= 1 /\ (ret._running <=> InFlight = 1)
            /\ (ret._running <=> ret.btn = "disabled"))
    /\ [][/\ ret'.started # ret.started => (~ret._running /\ ret'._running)
          /\ (ret._running /\ ret'.events # ret.events) => ret'.started = ret.started]_vars
    /\ (ret._running ~> (~ret._running /\ ret.btn = "normal"))

(* A second analysis was started after the first raised, and a key press   *)
(* during one of them started nothing.                                     *)
C30_Witness ==
    /\ fn = "PolyBetApp"
    /\ ret.started = 2
    /\ ret.events = 3
    /\ ret.warnings = 0
    /\ ret._running
    /\ ret.threads = {2}
    /\ ret.badge = ""

====
